---- MODULE Spec2Model ----
(***************************************************************************)
(* State-machine model of the punto keystroke service:                     *)
(*   core/layout.py, core/detector.py   layout table and language scorer   *)
(*   daemon/analyzer.py                 InputAnalyzer (word buffer)        *)
(*   daemon/injector.py                 Injector (virtual keyboard)        *)
(*   daemon/service.py                  PuntoService (orchestrator)        *)
(*   daemon/input_handler.py            InputHandler (device readers)      *)
(* Characters are modelled as strings; a Cyrillic letter is written        *)
(* "cy_<translit>" in lower case and "CY_<TRANSLIT>" in upper case.        *)
(***************************************************************************)
EXTENDS Integers, Sequences, FiniteSets, TLC

\* ------------------------------------------------------------------ bounds

\* Longest word buffer the environment types in Spec.
MaxBuf == 5
\* Longest run of printable keys the environment types in SpecWord.
MaxWord == 6
\* Longest buffer the environment types into the Analyzer in SpecScore.
MaxScore == 7
\* Most selection round-trips that are pending at once.
MaxSelTasks == 1
\* A failing uinput write is one of the first MaxFailAt attempts of a dispatch.
MaxFailAt == 3
\* Longest word buffer the environment types in SpecSel.
MaxSelBuf == 1
\* Most _monitor_device tasks alive at once (running or cancelled, not yet ended).
MaxTasks == 2

\* The longest word typed in SpecPause.
MaxPauseBuf == 2

\* The longest switch chord of SpecChord.
MaxChord == 3

\* ------------------------------------------------------- evdev scancodes

\* evdev.ecodes: the scancodes the source names (linux/input-event-codes.h).
KEY_ESC == 1
KEY_BACKSPACE == 14
KEY_TAB == 15
KEY_Q == 16
KEY_W == 17
KEY_E == 18
KEY_R == 19
KEY_T == 20
KEY_Y == 21
KEY_U == 22
KEY_I == 23
KEY_O == 24
KEY_P == 25
KEY_LEFTBRACE == 26
KEY_RIGHTBRACE == 27
KEY_ENTER == 28
KEY_LEFTCTRL == 29
KEY_A == 30
KEY_S == 31
KEY_D == 32
KEY_F == 33
KEY_G == 34
KEY_H == 35
KEY_J == 36
KEY_K == 37
KEY_L == 38
KEY_SEMICOLON == 39
KEY_APOSTROPHE == 40
KEY_LEFTSHIFT == 42
KEY_Z == 44
KEY_X == 45
KEY_C == 46
KEY_V == 47
KEY_B == 48
KEY_N == 49
KEY_M == 50
KEY_COMMA == 51
KEY_DOT == 52
KEY_SLASH == 53
KEY_RIGHTSHIFT == 54
KEY_LEFTALT == 56
KEY_SPACE == 57
KEY_RIGHTCTRL == 97
KEY_RIGHTALT == 100
KEY_PAUSE == 119
KEY_LEFTMETA == 125
KEY_RIGHTMETA == 126

\* ------------------------------------------------------------ layout table

\* core/layout.py _ROW1, _ROW2, _ROW3: the items (scancode, EN_char, RU_char) of
\* each dict literal, in the order written.
ROW1 ==
  << <<KEY_Q, "q", "cy_j">>,
     <<KEY_W, "w", "cy_ts">>,
     <<KEY_E, "e", "cy_u">>,
     <<KEY_R, "r", "cy_k">>,
     <<KEY_T, "t", "cy_e">>,
     <<KEY_Y, "y", "cy_n">>,
     <<KEY_U, "u", "cy_g">>,
     <<KEY_I, "i", "cy_sh">>,
     <<KEY_O, "o", "cy_sch">>,
     <<KEY_P, "p", "cy_z">>,
     <<KEY_LEFTBRACE, "[", "cy_kh">>,
     <<KEY_RIGHTBRACE, "]", "cy_hard">> >>

ROW2 ==
  << <<KEY_A, "a", "cy_f">>,
     <<KEY_S, "s", "cy_y">>,
     <<KEY_D, "d", "cy_v">>,
     <<KEY_F, "f", "cy_a">>,
     <<KEY_G, "g", "cy_p">>,
     <<KEY_H, "h", "cy_r">>,
     <<KEY_J, "j", "cy_o">>,
     <<KEY_K, "k", "cy_l">>,
     <<KEY_L, "l", "cy_d">>,
     <<KEY_SEMICOLON, ";", "cy_zh">>,
     <<KEY_APOSTROPHE, "'", "cy_eh">> >>

ROW3 ==
  << <<KEY_Z, "z", "cy_ya">>,
     <<KEY_X, "x", "cy_ch">>,
     <<KEY_C, "c", "cy_s">>,
     <<KEY_V, "v", "cy_m">>,
     <<KEY_B, "b", "cy_i">>,
     <<KEY_N, "n", "cy_t">>,
     <<KEY_M, "m", "cy_soft">>,
     <<KEY_COMMA, ",", "cy_b">>,
     <<KEY_DOT, ".", "cy_yu">>,
     <<KEY_SLASH, "/", ".">> >>

\* The items of KEY_MAP in iteration order, as {**_ROW1, **_ROW2, **_ROW3} keeps
\* them (no scancode occurs twice, so no item is overridden).
KEY_MAP_ITEMS == ROW1 \o ROW2 \o ROW3

\* KEY_MAP: scancode -> <<EN_char, RU_char>>.
KEY_MAP ==
  [ k \in { KEY_MAP_ITEMS[i][1] : i \in DOMAIN KEY_MAP_ITEMS } |->
      LET i == CHOOSE j \in DOMAIN KEY_MAP_ITEMS : KEY_MAP_ITEMS[j][1] = k
      IN  << KEY_MAP_ITEMS[i][2], KEY_MAP_ITEMS[i][3] >> ]

\* ------------------------------------------------------------- characters

\* str.upper() on the cased characters of the two alphabets.
UPPER ==
  [ a |-> "A", b |-> "B", c |-> "C", d |-> "D", e |-> "E", f |-> "F", g |-> "G",
    h |-> "H", i |-> "I", j |-> "J", k |-> "K", l |-> "L", m |-> "M", n |-> "N",
    o |-> "O", p |-> "P", q |-> "Q", r |-> "R", s |-> "S", t |-> "T", u |-> "U",
    v |-> "V", w |-> "W", x |-> "X", y |-> "Y", z |-> "Z",
    cy_a |-> "CY_A", cy_b |-> "CY_B", cy_v |-> "CY_V", cy_g |-> "CY_G",
    cy_d |-> "CY_D", cy_e |-> "CY_E", cy_yo |-> "CY_YO", cy_zh |-> "CY_ZH",
    cy_z |-> "CY_Z", cy_i |-> "CY_I", cy_j |-> "CY_J", cy_k |-> "CY_K",
    cy_l |-> "CY_L", cy_m |-> "CY_M", cy_n |-> "CY_N", cy_o |-> "CY_O",
    cy_p |-> "CY_P", cy_r |-> "CY_R", cy_s |-> "CY_S", cy_t |-> "CY_T",
    cy_u |-> "CY_U", cy_f |-> "CY_F", cy_kh |-> "CY_KH", cy_ts |-> "CY_TS",
    cy_ch |-> "CY_CH", cy_sh |-> "CY_SH", cy_sch |-> "CY_SCH",
    cy_hard |-> "CY_HARD", cy_y |-> "CY_Y", cy_soft |-> "CY_SOFT",
    cy_eh |-> "CY_EH", cy_yu |-> "CY_YU", cy_ya |-> "CY_YA" ]

LowerLetters == DOMAIN UPPER
UpperLetters == { UPPER[c] : c \in LowerLetters }

\* str.isalpha() / str.isupper() / str.lower() of one character.
IsAlpha(c) == c \in LowerLetters \cup UpperLetters
IsUpper(c) == c \in UpperLetters
Lower(c) == IF c \in UpperLetters
            THEN CHOOSE l \in LowerLetters : UPPER[l] = c
            ELSE c

\* --------------------------------------------------------- language scorer

\* LanguageDetector.__init__: the vowel sets.
en_vowels == {"a", "e", "i", "o", "u", "y"}
ru_vowels == {"cy_a", "cy_e", "cy_yo", "cy_i", "cy_o", "cy_u", "cy_y",
              "cy_eh", "cy_yu", "cy_ya"}

\* The loop of _score_structure: walks text from position i with the running
\* and the maximal count of consecutive consonants; non-alphabetic characters
\* are skipped (they neither count nor reset the run).
RECURSIVE ConsonantWalk(_, _, _, _, _)
ConsonantWalk(text, vowels, i, consecutive, maxc) ==
  IF i > Len(text) THEN maxc
  ELSE LET char == Lower(text[i]) IN
       IF ~IsAlpha(char)
       THEN ConsonantWalk(text, vowels, i + 1, consecutive, maxc)
       ELSE IF char \in vowels
       THEN ConsonantWalk(text, vowels, i + 1, 0, maxc)
       ELSE ConsonantWalk(text, vowels, i + 1, consecutive + 1,
                          IF consecutive + 1 > maxc THEN consecutive + 1 ELSE maxc)

\* Variant of _score_structure with the consonant limit reached at "not less
\* than" instead of "greater than": C3_Verdict tells it from the source.
score_structure_ge(text, lang) ==
  IF text = <<>> THEN 0
  ELSE LET vowels == IF lang = "en" THEN en_vowels ELSE ru_vowels
           limit == IF lang = "en" THEN 5 ELSE 4
       IN  IF ConsonantWalk(text, vowels, 1, 0, 0) >= limit THEN -10
           ELSE IF Len(text) > 4
                   /\ ~(\E i \in 1..Len(text) : Lower(text[i]) \in vowels)
                THEN -5
                ELSE 5

\* Variant of _score_structure whose no-vowel penalty starts at six
\* characters: C2_SwitchOnFifthKey tells it from the source.
score_structure_len5(text, lang) ==
  IF text = <<>> THEN 0
  ELSE LET vowels == IF lang = "en" THEN en_vowels ELSE ru_vowels
           limit == IF lang = "en" THEN 5 ELSE 4
       IN  IF ConsonantWalk(text, vowels, 1, 0, 0) > limit THEN -10
           ELSE IF Len(text) > 5
                   /\ ~(\E i \in 1..Len(text) : Lower(text[i]) \in vowels)
                THEN -5
                ELSE 5

\* LanguageDetector._score_structure(text, lang).
score_structure(text, lang) ==
  IF text = <<>> THEN 0
  ELSE LET vowels == IF lang = "en" THEN en_vowels ELSE ru_vowels
           max_consecutive_consonants == ConsonantWalk(text, vowels, 1, 0, 0)
           limit == IF lang = "en" THEN 5 ELSE 4
       IN  IF max_consecutive_consonants > limit THEN -10
           ELSE IF Len(text) > 4
                   /\ ~(\E i \in 1..Len(text) : Lower(text[i]) \in vowels)
                THEN -5
                ELSE 5

\* LanguageDetector.analyze(en_text, ru_text): "en", "ru" or "none".
detector_analyze(en_text, ru_text) ==
  LET score_en == score_structure(en_text, "en")
      score_ru == score_structure(ru_text, "ru")
  IN  IF score_en > 0 /\ score_ru < 0 THEN "en"
      ELSE IF score_ru > 0 /\ score_en < 0 THEN "ru"
      ELSE "none"

\* ---------------------------------------------------------------- analyzer

\* Optional values: None is the empty tuple, a present value x is <<x>>.
None == <<>>
Some(x) == <<x>>

\* AnalysisResult(action, target_layout_index=0, confidence=0.0, payload=None,
\* text_payload=None); confidence is kept in tenths (0.8 is 8, 1.0 is 10).
AnalysisResult(action, target_layout_index, confidence, payload, text_payload) ==
  [ action |-> action, target_layout_index |-> target_layout_index,
    confidence |-> confidence, payload |-> payload,
    text_payload |-> text_payload ]

\* AnalysisResult(action): every other field at its default.
Result(action) == AnalysisResult(action, 0, 0, None, None)

\* Python truthiness of an Optional list or string: neither None nor empty.
Truthy(opt) == opt # None /\ opt[1] # <<>>

\* InputAnalyzer.__init__.
InputAnalyzer(layout_switch_hotkey, autocorrect, autoreplace) ==
  [ buffer |-> <<>>, active_modifiers |-> {},
    autocorrect |-> autocorrect, autoreplace |-> autoreplace,
    switch_hotkey |-> layout_switch_hotkey, paused |-> FALSE ]

\* InputAnalyzer.reset.
reset(a) == [a EXCEPT !.buffer = <<>>]

\* Variant of set_paused that keeps the buffer: C17_PausedInert tells it from
\* the source.
set_paused_keep(a, value) == [a EXCEPT !.paused = value]

\* InputAnalyzer.set_paused.
set_paused(a, value) ==
  IF value /\ ~a.paused THEN [reset(a) EXCEPT !.paused = value]
  ELSE [a EXCEPT !.paused = value]

\* "".join(KEY_MAP[k][0] for k in buffer) and the [1] rendering.
en_word(buf) == [i \in 1..Len(buf) |-> KEY_MAP[buf[i]][1]]
ru_word(buf) == [i \in 1..Len(buf) |-> KEY_MAP[buf[i]][2]]

\* InputAnalyzer._analyze_buffer.
analyze_buffer(a) ==
  IF Len(a.buffer) < 3 THEN Result("NONE")
  ELSE LET verdict == detector_analyze(en_word(a.buffer), ru_word(a.buffer)) IN
       IF verdict = "ru"
       THEN AnalysisResult("SWITCH_LAYOUT", 1, 8, Some(a.buffer), None)
       ELSE IF verdict = "en"
       THEN AnalysisResult("SWITCH_LAYOUT", 0, 8, Some(a.buffer), None)
       ELSE Result("NONE")

\* Variant of _check_replacements that consults autocorrect before
\* autoreplace: C11_LookupOrder tells it from the source.
check_replacements_ac_first(a) ==
  IF a.buffer = <<>> THEN None
  ELSE LET en == en_word(a.buffer)
           ru == ru_word(a.buffer)
           hit(text) == Some(AnalysisResult("REPLACE_TEXT", 0, 10,
                                            Some(a.buffer), Some(text)))
       IN  IF en \in DOMAIN a.autocorrect THEN hit(a.autocorrect[en])
           ELSE IF ru \in DOMAIN a.autocorrect THEN hit(a.autocorrect[ru])
           ELSE IF en \in DOMAIN a.autoreplace THEN hit(a.autoreplace[en])
           ELSE IF ru \in DOMAIN a.autoreplace THEN hit(a.autoreplace[ru])
           ELSE None

\* InputAnalyzer._check_replacements: None when nothing matches.
check_replacements(a) ==
  IF a.buffer = <<>> THEN None
  ELSE LET en == en_word(a.buffer)
           ru == ru_word(a.buffer)
           hit(text) == Some(AnalysisResult("REPLACE_TEXT", 0, 10,
                                            Some(a.buffer), Some(text)))
       IN  IF en \in DOMAIN a.autoreplace THEN hit(a.autoreplace[en])
           ELSE IF ru \in DOMAIN a.autoreplace THEN hit(a.autoreplace[ru])
           ELSE IF en \in DOMAIN a.autocorrect THEN hit(a.autocorrect[en])
           ELSE IF ru \in DOMAIN a.autocorrect THEN hit(a.autocorrect[ru])
           ELSE None

\* The eight modifier scancodes process_key tracks.
MODIFIERS ==
  { KEY_LEFTSHIFT, KEY_RIGHTSHIFT,
    KEY_LEFTCTRL, KEY_RIGHTCTRL,
    KEY_LEFTALT, KEY_RIGHTALT,
    KEY_LEFTMETA, KEY_RIGHTMETA }

\* The word-boundary keys of process_key.
DELIMITERS ==
  { KEY_SPACE, KEY_ENTER, KEY_TAB,
    KEY_COMMA, KEY_DOT }

\* Variant of the PAUSE branch that tests Alt before Ctrl:
\* C15_PausePriorityLeft tells it from the source.
pause_action_alt_first(a) ==
  LET lctrl  == KEY_LEFTCTRL \in a.active_modifiers
      lshift == KEY_LEFTSHIFT \in a.active_modifiers
      lalt   == KEY_LEFTALT \in a.active_modifiers
  IN  IF lalt THEN "NUM_TO_WORDS"
      ELSE IF lctrl /\ lshift THEN "TRANSLITERATE"
      ELSE IF lctrl THEN "INVERT_CASE"
      ELSE IF lshift THEN "INVERT_CASE"
      ELSE "CORRECT_WRONG_LAYOUT"

\* process_key, the PAUSE branch: the action chosen from the held modifiers.
pause_action(a) ==
  LET lctrl  == KEY_LEFTCTRL \in a.active_modifiers
      lshift == KEY_LEFTSHIFT \in a.active_modifiers
      lalt   == KEY_LEFTALT \in a.active_modifiers
  IN  IF lctrl /\ lshift THEN "TRANSLITERATE"
      ELSE IF lctrl THEN "INVERT_CASE"
      ELSE IF lalt THEN "NUM_TO_WORDS"
      ELSE IF lshift THEN "INVERT_CASE"
      ELSE "CORRECT_WRONG_LAYOUT"

\* process_key: the chord test, "switch_hotkey and key_code == switch_hotkey[-1]"
\* with every earlier chord element in active_modifiers.
switch_hotkey_hit(a, key_code) ==
  /\ a.switch_hotkey # <<>>
  /\ key_code = a.switch_hotkey[Len(a.switch_hotkey)]
  /\ \A i \in 1..(Len(a.switch_hotkey) - 1) :
       a.switch_hotkey[i] \in a.active_modifiers

\* process_key, step 2 and 3: append the scancode and analyse the buffer.
append_and_analyze(a, key_code) ==
  LET a2 == [a EXCEPT !.buffer = Append(a.buffer, key_code)]
  IN  [analyzer |-> a2, res |-> analyze_buffer(a2)]

\* Variant of the printable-key branch that leaves the buffer alone on a key
\* outside the Layout Table: C5_BoundaryEmptiesBuffer tells it from the source.
printable_key_keep(a, key_code) ==
  IF key_code \notin DOMAIN KEY_MAP
  THEN [analyzer |-> a, res |-> Result("NONE")]
  ELSE append_and_analyze(a, key_code)

\* Variant of the printable-key branch that appends every key without the
\* Layout Table test: C6_BufferInLayoutTable tells it from the source.
printable_key_any(a, key_code) ==
  [analyzer |-> [a EXCEPT !.buffer = Append(@, key_code)], res |-> Result("NONE")]

\* process_key: the branch that decides whether a key is printable.
printable_key(a, key_code) ==
  IF key_code \notin DOMAIN KEY_MAP
  THEN [analyzer |-> reset(a), res |-> Result("NONE")]
  ELSE append_and_analyze(a, key_code)

\* Variant of the modifier branch in which a key-repeat counts as a release.
modifier_key_repeat_up(a, key_code, value) ==
  [analyzer |->
     IF value = 1
     THEN [a EXCEPT !.active_modifiers = @ \cup {key_code}]
     ELSE [a EXCEPT !.active_modifiers = @ \ {key_code}],
   res |-> Result("NONE")]

\* process_key, the modifier branch: add on key-down, discard on key-up,
\* nothing on key-repeat; always NONE.
modifier_key(a, key_code, value) ==
  [analyzer |->
     IF value = 1
     THEN [a EXCEPT !.active_modifiers = @ \cup {key_code}]
     ELSE IF value = 0
     THEN [a EXCEPT !.active_modifiers = @ \ {key_code}]
     ELSE a,
   res |-> Result("NONE")]

\* Variant of the backspace branch that empties the buffer.
backspace_key_clear(a) == [analyzer |-> reset(a), res |-> Result("NONE")]

\* process_key, the backspace branch: buffer.pop() if the buffer is not
\* empty; NONE.
backspace_key(a) ==
  [analyzer |->
     IF a.buffer # <<>>
     THEN [a EXCEPT !.buffer = SubSeq(@, 1, Len(@) - 1)]
     ELSE a,
   res |-> Result("NONE")]

\* process_key after the chord test: the PAUSE hotkey, backspace, the word
\* boundaries and the printable keys.
after_chord(a, key_code) ==
  IF key_code = KEY_PAUSE
  THEN [analyzer |-> a,
        res |-> IF a.buffer # <<>>
                THEN AnalysisResult(pause_action(a), 0, 0, Some(a.buffer), None)
                ELSE Result(pause_action(a))]
  ELSE IF key_code = KEY_BACKSPACE
  THEN backspace_key(a)
  ELSE IF key_code \in DELIMITERS
  THEN LET r == check_replacements(a) IN
       [analyzer |-> reset(a),
        res |-> IF r # None THEN r[1] ELSE Result("NONE")]
  ELSE printable_key(a, key_code)

\* Variant of process_key that tests the chord on key-down only.
process_key_down_only(a, key_code, value) ==
  IF a.paused THEN [analyzer |-> a, res |-> Result("NONE")]
  ELSE IF key_code \in MODIFIERS
  THEN modifier_key(a, key_code, value)
  ELSE IF value = 0 THEN [analyzer |-> a, res |-> Result("NONE")]
  ELSE IF value = 1 /\ switch_hotkey_hit(a, key_code)
  THEN [analyzer |-> reset(a), res |-> Result("LAYOUT_CHANGED")]
  ELSE after_chord(a, key_code)

\* Variant of process_key that tests the chord before the modifier branch.
process_key_chord_first(a, key_code, value) ==
  IF a.paused THEN [analyzer |-> a, res |-> Result("NONE")]
  ELSE IF value # 0 /\ switch_hotkey_hit(a, key_code)
  THEN [analyzer |-> reset(a), res |-> Result("LAYOUT_CHANGED")]
  ELSE IF key_code \in MODIFIERS
  THEN modifier_key(a, key_code, value)
  ELSE IF value = 0 THEN [analyzer |-> a, res |-> Result("NONE")]
  ELSE after_chord(a, key_code)

\* InputAnalyzer.process_key(key_code, value): the analyzer afterwards and the
\* AnalysisResult returned.
process_key(a, key_code, value) ==
  IF a.paused THEN [analyzer |-> a, res |-> Result("NONE")]
  ELSE IF key_code \in MODIFIERS
  THEN modifier_key(a, key_code, value)
  ELSE IF value = 0 THEN [analyzer |-> a, res |-> Result("NONE")]
  ELSE IF switch_hotkey_hit(a, key_code)
  THEN [analyzer |-> reset(a), res |-> Result("LAYOUT_CHANGED")]
  ELSE after_chord(a, key_code)

\* ------------------------------------------------------------- converters

\* str.upper() of one character: characters without case are kept.
Upper(c) == IF c \in LowerLetters THEN UPPER[c] ELSE c

\* core/converters.py _EN_CHARS and _RU_CHARS: for every KEY_MAP item the
\* character and its upper() are appended.
EN_CHARS ==
  [ i \in 1..(2 * Len(KEY_MAP_ITEMS)) |->
      IF i % 2 = 1 THEN KEY_MAP_ITEMS[(i + 1) \div 2][2]
      ELSE Upper(KEY_MAP_ITEMS[i \div 2][2]) ]
RU_CHARS ==
  [ i \in 1..(2 * Len(KEY_MAP_ITEMS)) |->
      IF i % 2 = 1 THEN KEY_MAP_ITEMS[(i + 1) \div 2][3]
      ELSE Upper(KEY_MAP_ITEMS[i \div 2][3]) ]

\* str.maketrans(x, y): x[i] is mapped to y[i]; of two entries for the same
\* character the later one is kept.
maketrans(x, y) ==
  [ c \in { x[i] : i \in DOMAIN x } |->
      y[CHOOSE i \in DOMAIN x :
          x[i] = c /\ \A j \in DOMAIN x : x[j] = c => j <= i] ]

TRANS_EN_TO_RU == maketrans(EN_CHARS, RU_CHARS)
TRANS_RU_TO_EN == maketrans(RU_CHARS, EN_CHARS)

\* switch_layout: full_table = {**_TRANS_EN_TO_RU, **_TRANS_RU_TO_EN}, the
\* second table overriding the first.
full_table ==
  [ c \in DOMAIN TRANS_EN_TO_RU \cup DOMAIN TRANS_RU_TO_EN |->
      IF c \in DOMAIN TRANS_RU_TO_EN THEN TRANS_RU_TO_EN[c]
      ELSE TRANS_EN_TO_RU[c] ]

\* converters.switch_layout(text): text.translate(full_table).
switch_layout(text) ==
  [ i \in 1..Len(text) |->
      IF text[i] \in DOMAIN full_table THEN full_table[text[i]] ELSE text[i] ]

\* transliterate: the ru_to_lat dict.
ru_to_lat ==
  [ cy_a |-> <<"a">>, cy_b |-> <<"b">>, cy_v |-> <<"v">>, cy_g |-> <<"g">>,
    cy_d |-> <<"d">>, cy_e |-> <<"e">>, cy_yo |-> <<"y", "o">>,
    cy_zh |-> <<"z", "h">>, cy_z |-> <<"z">>, cy_i |-> <<"i">>,
    cy_j |-> <<"y">>, cy_k |-> <<"k">>, cy_l |-> <<"l">>, cy_m |-> <<"m">>,
    cy_n |-> <<"n">>, cy_o |-> <<"o">>, cy_p |-> <<"p">>, cy_r |-> <<"r">>,
    cy_s |-> <<"s">>, cy_t |-> <<"t">>, cy_u |-> <<"u">>, cy_f |-> <<"f">>,
    cy_kh |-> <<"k", "h">>, cy_ts |-> <<"t", "s">>, cy_ch |-> <<"c", "h">>,
    cy_sh |-> <<"s", "h">>, cy_sch |-> <<"s", "c", "h">>, cy_hard |-> <<>>,
    cy_y |-> <<"y">>, cy_soft |-> <<>>, cy_eh |-> <<"e">>,
    cy_yu |-> <<"y", "u">>, cy_ya |-> <<"y", "a">> ]

\* str.capitalize(): the first character upper-cased, the others lower-cased.
Capitalize(v) ==
  [ i \in 1..Len(v) |-> IF i = 1 THEN Upper(v[i]) ELSE Lower(v[i]) ]

\* transliterate: ru_to_lat_full.get(char, char).
ru_to_lat_full(char) ==
  IF char \in DOMAIN ru_to_lat THEN ru_to_lat[char]
  ELSE IF Lower(char) \in DOMAIN ru_to_lat /\ char = Upper(Lower(char))
  THEN Capitalize(ru_to_lat[Lower(char)])
  ELSE << char >>

\* converters.transliterate(text).
RECURSIVE transliterate(_)
transliterate(text) ==
  IF text = <<>> THEN <<>>
  ELSE ru_to_lat_full(Head(text)) \o transliterate(Tail(text))

\* converters.invert_case(text): str.swapcase().
invert_case(text) ==
  [ i \in 1..Len(text) |->
      IF text[i] \in LowerLetters THEN UPPER[text[i]]
      ELSE IF text[i] \in UpperLetters THEN Lower(text[i])
      ELSE text[i] ]

\* str.strip() for the blank character.
RECURSIVE Strip(_)
Strip(text) ==
  IF text # <<>> /\ Head(text) = " " THEN Strip(Tail(text))
  ELSE IF text # <<>> /\ text[Len(text)] = " "
  THEN Strip(SubSeq(text, 1, Len(text) - 1))
  ELSE text

\* number_to_text: clean_text = text.replace(',', '.').strip().
clean_text(text) ==
  Strip([ i \in 1..Len(text) |-> IF text[i] = "," THEN "." ELSE text[i] ])

\* float(clean_text) succeeds: over digits and the point, a literal with at
\* least one digit and at most one point (signs, exponents, inf and nan are
\* outside the characters of the model).
float_parses(t) ==
  LET Digits == { "0", "1", "2", "3", "4", "5", "6", "7", "8", "9" } IN
  /\ t # <<>>
  /\ \A i \in DOMAIN t : t[i] \in Digits \cup {"."}
  /\ \E i \in DOMAIN t : t[i] \in Digits
  /\ Cardinality({ i \in DOMAIN t : t[i] = "." }) <= 1

\* num2words(number, lang='ru') of the external package: a non-empty text
\* that is left uninterpreted.
num2words(t) == << "num2words:" >> \o t

\* converters.number_to_text(text): None when the num2words package is not
\* installed or float() raises ValueError.
number_to_text(text, installed) ==
  IF ~installed THEN None
  ELSE IF ~float_parses(clean_text(text)) THEN None
  ELSE Some(num2words(clean_text(text)))

\* ---------------------------------------------------------------- injector

\* core/layout_utils.py CHAR_TO_KEYCODE: filled item by item, the EN character
\* and then the RU character of each key; a later assignment overrides.
CHAR_TO_KEYCODE ==
  LET n == Len(KEY_MAP_ITEMS)
      chars == { KEY_MAP_ITEMS[i][2] : i \in 1..n } \cup
               { KEY_MAP_ITEMS[i][3] : i \in 1..n }
      has(i, c) == KEY_MAP_ITEMS[i][2] = c \/ KEY_MAP_ITEMS[i][3] = c
      last(c) == CHOOSE i \in 1..n :
                   has(i, c) /\ \A j \in 1..n : has(j, c) => j <= i
  IN  [ c \in chars |-> KEY_MAP_ITEMS[last(c)][1] ]

\* get_sequence_for_char(char): None, or <<(code, needs_shift)>>.
get_sequence_for_char(char) ==
  LET lower == Lower(char) IN
  IF lower \notin DOMAIN CHAR_TO_KEYCODE THEN None
  ELSE Some([code |-> CHAR_TO_KEYCODE[lower], shift |-> IsUpper(char)])

\* One call Injector.send_key(key_code, press, release).
send_key(key_code, press, release) ==
  [code |-> key_code, press |-> press, release |-> release]

\* Injector.backspace(count): the send_key calls it makes.
backspace(count) ==
  [i \in 1..count |-> send_key(KEY_BACKSPACE, TRUE, TRUE)]

\* reversed(keys).
Reversed(keys) == [i \in 1..Len(keys) |-> keys[Len(keys) + 1 - i]]

\* Variant of Injector.switch_layout that releases the keys in the order it
\* pressed them.
switch_layout_keys_fifo(switch_keys) ==
  [i \in 1..Len(switch_keys) |-> send_key(switch_keys[i], TRUE, FALSE)] \o
  [i \in 1..Len(switch_keys) |-> send_key(switch_keys[i], FALSE, TRUE)]

\* Injector.switch_layout(switch_keys): press all in order, release reversed.
switch_layout_keys(switch_keys) ==
  [i \in 1..Len(switch_keys) |-> send_key(switch_keys[i], TRUE, FALSE)] \o
  [i \in 1..Len(switch_keys) |-> send_key(Reversed(switch_keys)[i], FALSE, TRUE)]

\* Injector.send_combo(modifiers, key).
send_combo(modifiers, key) ==
  [i \in 1..Len(modifiers) |-> send_key(modifiers[i], TRUE, FALSE)] \o
  << send_key(key, TRUE, TRUE) >> \o
  [i \in 1..Len(modifiers) |-> send_key(Reversed(modifiers)[i], FALSE, TRUE)]

\* Injector.type_sequence(key_codes).
type_sequence(key_codes) ==
  [i \in 1..Len(key_codes) |-> send_key(key_codes[i], TRUE, TRUE)]

\* Variant of type_string that gives up at the first character without a
\* keycode.
RECURSIVE type_string_stop(_)
type_string_stop(text) ==
  IF text = <<>> THEN <<>>
  ELSE LET seq == get_sequence_for_char(Head(text)) IN
       IF seq = None THEN <<>>
       ELSE ( IF seq[1].shift
              THEN << send_key(KEY_LEFTSHIFT, TRUE, FALSE),
                      send_key(seq[1].code, TRUE, TRUE),
                      send_key(KEY_LEFTSHIFT, FALSE, TRUE) >>
              ELSE << send_key(seq[1].code, TRUE, TRUE) >> )
            \o type_string_stop(Tail(text))

\* Injector.type_string(text): characters without a keycode are skipped.
RECURSIVE type_string(_)
type_string(text) ==
  IF text = <<>> THEN <<>>
  ELSE LET seq == get_sequence_for_char(Head(text)) IN
       ( IF seq = None THEN <<>>
         ELSE IF seq[1].shift
         THEN << send_key(KEY_LEFTSHIFT, TRUE, FALSE),
                 send_key(seq[1].code, TRUE, TRUE),
                 send_key(KEY_LEFTSHIFT, FALSE, TRUE) >>
         ELSE << send_key(seq[1].code, TRUE, TRUE) >> )
       \o type_string(Tail(text))

\* The body of Injector.send_key for one call, given the number n of uinput
\* writes attempted before it and the attempt fail_at that raises OSError
\* (0: none does). A write is <<code, value>>; write and syn are one attempt.
\* An OSError leaves the try block: a failed press skips the release.
send_key_writes(call, n, fail_at) ==
  LET press_fails   == call.press /\ n + 1 = fail_at
      n1            == IF call.press THEN n + 1 ELSE n
      release_tried == call.release /\ ~press_fails
      release_fails == release_tried /\ n1 + 1 = fail_at
  IN  [ written |->
          (IF call.press /\ ~press_fails THEN << <<call.code, 1>> >> ELSE <<>>) \o
          (IF release_tried /\ ~release_fails THEN << <<call.code, 0>> >> ELSE <<>>),
        attempts |-> IF release_tried THEN n1 + 1 ELSE n1 ]

\* The writes that reach the virtual keyboard when the send_key calls are made
\* in order, from call i on, after n attempted writes.
RECURSIVE uinput_writes(_, _, _, _)
uinput_writes(calls, i, n, fail_at) ==
  IF i > Len(calls) THEN <<>>
  ELSE LET w == send_key_writes(calls[i], n, fail_at)
       IN  w.written \o uinput_writes(calls, i + 1, w.attempts, fail_at)

\* What the Injector writes for the calls: nothing once the device is closed
\* (send_key returns at "if not self._ui").
injector_emit(ui_open, calls, fail_at) ==
  IF ~ui_open THEN <<>> ELSE uinput_writes(calls, 1, 0, fail_at)

\* The writes the calls make when no write fails.
AllWrites(calls) == uinput_writes(calls, 1, 0, 0)

\* ------------------------------------------------------------------- state

VARIABLES
  analyzer,              \* PuntoService.analyzer: the InputAnalyzer in use
  config,                \* PuntoService.config: the Config snapshot
  current_layout_index,  \* PuntoService.current_layout_index (shadow layout)
  injector_ui,           \* Injector._ui is not None
  sel_tasks,             \* the live _perform_selection_correction tasks
  clipboard,             \* environment: the text last stored by set_text
  window,                \* what get_active_window_info() returned in the last step
  host_layout,           \* environment: the layout the host really is in
  phys_mods,             \* environment: modifier keys physically held
  evt,                   \* the last step: its kind and the key event
  res,                   \* the AnalysisResult of the last dispatched event
  emitted,               \* writes that reached the virtual keyboard in the last step
  wfail,                 \* whether a uinput write raised OSError in the last step
  fed,                   \* history: the key-downs typed since the start
  present,               \* environment: the device paths evdev.list_devices() returns
  monitors,              \* InputHandler.monitors: path -> reader task
  readers,               \* the live _monitor_device tasks: task -> path, cancel requested
  should_run,            \* InputHandler.should_run
  scanner,               \* the _device_scanner_loop task: "none", "running", "done"
  seen,                  \* the paths the last sweep opened
  source,                \* the name of the device whose reader delivered the last event
  running,               \* PuntoService._running_event is set
  run_pc                 \* where PuntoService.run() is: "start", "sleep", "closing", "done"

svars == << analyzer, config, current_layout_index, injector_ui, sel_tasks,
            clipboard, window,
            host_layout, phys_mods, evt, res, emitted, wfail >>

tvars == << present, monitors, readers, should_run, scanner, seen, source >>

rvars == << running, run_pc >>

\* ----------------------------------------------------------------- service

\* ConfigManager.get_default: layout_switch_hotkey=[125, 57].
DefaultChord == << KEY_LEFTMETA, KEY_SPACE >>

\* The chord the host itself toggles its layout on.
HostChord == DefaultChord

\* PuntoService.__init__ / reload_config: the Analyzer built from a snapshot.
new_analyzer(cfg) ==
  InputAnalyzer(cfg.layout_switch_hotkey, cfg.autocorrect, cfg.autoreplace)

\* Variant of _perform_switch without the final analyzer.reset():
\* C4_BufferEmptyAfterRealized tells it from the source.
perform_switch_keep(a, cfg, cur, key_codes) ==
  [ analyzer |-> a,
    current_layout_index |-> 1 - cur,
    calls |-> backspace(Len(key_codes))
              \o switch_layout_keys(cfg.layout_switch_hotkey)
              \o type_sequence(key_codes),
    spawn |-> None ]

\* Variant of _perform_switch that sends the chord before the backspaces:
\* C7_RewriteSequence tells it from the source.
perform_switch_chord_first(a, cfg, cur, key_codes) ==
  [ analyzer |-> reset(a),
    current_layout_index |-> 1 - cur,
    calls |-> switch_layout_keys(cfg.layout_switch_hotkey)
              \o backspace(Len(key_codes))
              \o type_sequence(key_codes),
    spawn |-> None ]

\* Variant of _perform_switch that does not flip current_layout_index:
\* C9_RewriteKeepsMismatch tells it from the source.
perform_switch_noflip(a, cfg, cur, key_codes) ==
  [ analyzer |-> reset(a),
    current_layout_index |-> cur,
    calls |-> backspace(Len(key_codes))
              \o switch_layout_keys(cfg.layout_switch_hotkey)
              \o type_sequence(key_codes),
    spawn |-> None ]

\* Variant of _perform_switch that advances current_layout_index by one.
perform_switch_next(a, cfg, cur, key_codes) ==
  [ analyzer |-> reset(a),
    current_layout_index |-> cur + 1,
    calls |-> backspace(Len(key_codes))
              \o switch_layout_keys(cfg.layout_switch_hotkey)
              \o type_sequence(key_codes),
    spawn |-> None ]

\* PuntoService._perform_switch(key_codes): backspace, chord, flip, retype, reset.
perform_switch(a, cfg, cur, key_codes) ==
  [ analyzer |-> reset(a),
    current_layout_index |-> 1 - cur,
    calls |-> backspace(Len(key_codes))
              \o switch_layout_keys(cfg.layout_switch_hotkey)
              \o type_sequence(key_codes),
    spawn |-> None ]

\* A dispatch that leaves the service as the Analyzer left it.
no_action(a, cur) ==
  [ analyzer |-> a, current_layout_index |-> cur, calls |-> <<>>, spawn |-> None ]

\* Variant of the SWITCH_LAYOUT branch without the comparison of the target
\* with current_layout_index: C8_SuppressedSwitch tells it from the source.
dispatch_switch_always(a, cfg, cur, r) ==
  IF Truthy(r.payload)
  THEN perform_switch(a, cfg, cur, r.payload[1])
  ELSE no_action(a, cur)

\* on_input_event, the SWITCH_LAYOUT branch.
dispatch_switch(a, cfg, cur, r) ==
  IF Truthy(r.payload) /\ r.target_layout_index # cur
  THEN perform_switch(a, cfg, cur, r.payload[1])
  ELSE no_action(a, cur)

\* on_input_event, the REPLACE_TEXT branch.
dispatch_replace(a, cur, r) ==
  IF Truthy(r.payload) /\ Truthy(r.text_payload)
  THEN [ no_action(a, cur) EXCEPT
           !.calls = backspace(Len(r.payload[1]) + 1)
                     \o type_string(r.text_payload[1]) ]
  ELSE no_action(a, cur)

\* Variant of the manual-action branch that rewrites the word for every
\* action with a payload: C16_AdvancedOnWordNoEffect tells it from the source.
dispatch_manual_any(a, cfg, cur, r) ==
  IF Truthy(r.payload)
  THEN perform_switch(a, cfg, cur, r.payload[1])
  ELSE [ no_action(a, cur) EXCEPT !.spawn = Some(r.action) ]

\* on_input_event, the branch of the four manual (PAUSE hotkey) actions.
dispatch_manual(a, cfg, cur, r) ==
  IF Truthy(r.payload)
  THEN IF r.action = "CORRECT_WRONG_LAYOUT"
       THEN perform_switch(a, cfg, cur, r.payload[1])
       ELSE no_action(a, cur)
  ELSE [ no_action(a, cur) EXCEPT !.spawn = Some(r.action) ]

\* Variant of on_input_event whose LAYOUT_CHANGED branch leaves
\* current_layout_index alone: C12_ManualSwitch tells it from the source.
dispatch_no_flip(a, cfg, cur, r) ==
  IF r.action = "SWITCH_LAYOUT" THEN dispatch_switch(a, cfg, cur, r)
  ELSE IF r.action = "REPLACE_TEXT" THEN dispatch_replace(a, cur, r)
  ELSE IF r.action \in {"CORRECT_WRONG_LAYOUT", "TRANSLITERATE",
                        "INVERT_CASE", "NUM_TO_WORDS"}
  THEN dispatch_manual(a, cfg, cur, r)
  ELSE no_action(a, cur)

\* PuntoService.on_input_event after process_key returned r and left the
\* Analyzer as a: the Analyzer and shadow layout afterwards, the send_key calls
\* made, and the selection task created (if any).
dispatch(a, cfg, cur, r) ==
  IF r.action = "LAYOUT_CHANGED"
  THEN [ no_action(a, cur) EXCEPT !.current_layout_index = 1 - cur ]
  ELSE IF r.action = "SWITCH_LAYOUT" THEN dispatch_switch(a, cfg, cur, r)
  ELSE IF r.action = "REPLACE_TEXT" THEN dispatch_replace(a, cur, r)
  ELSE IF r.action \in {"CORRECT_WRONG_LAYOUT", "TRANSLITERATE",
                        "INVERT_CASE", "NUM_TO_WORDS"}
  THEN dispatch_manual(a, cfg, cur, r)
  ELSE no_action(a, cur)

\* Environment: how often the host sees its chord completed in a stream of
\* key writes, walking the stream with the set of keys held so far.
RECURSIVE ChordHits(_, _, _)
ChordHits(stream, i, held) ==
  IF i > Len(stream) THEN 0
  ELSE LET code == stream[i][1]
           down == stream[i][2] = 1
           hit  == /\ down
                   /\ code = HostChord[Len(HostChord)]
                   /\ \A j \in 1..(Len(HostChord) - 1) : HostChord[j] \in held
       IN  (IF hit THEN 1 ELSE 0)
           + ChordHits(stream, i + 1,
                       IF down THEN held \cup {code} ELSE held \ {code})

\* Environment: the host layout after a physical key event and the writes the
\* service made on the virtual keyboard while handling it.
host_after(host, held, code, value, written) ==
  LET physical == IF /\ value = 1
                     /\ code = HostChord[Len(HostChord)]
                     /\ \A j \in 1..(Len(HostChord) - 1) : HostChord[j] \in held
                  THEN 1 ELSE 0
      toggles  == physical + ChordHits(written, 1, {})
  IN  IF toggles % 2 = 1 THEN 1 - host ELSE host

\* Environment: the modifiers physically held after a key event.
held_after(held, code, value) ==
  IF code \notin MODIFIERS THEN held
  ELSE IF value = 1 THEN held \cup {code}
  ELSE IF value = 0 THEN held \ {code}
  ELSE held

\* Number of uinput writes the calls attempt when none fails.
Attempts(calls) == Len(AllWrites(calls))

\* asyncio.create_task(self._perform_selection_correction(action)): the task
\* before its first step, with the steps it has made (log), the text it read
\* and the text it computed.
create_task(action) ==
  [ action |-> action, pc |-> "start", log |-> <<>>,
    text |-> None, new_text |-> None ]

\* _perform_selection_correction, "3. Process": the text computed from the
\* text read, for the action of the task.
selection_new_text(action, text, installed) ==
  IF action = "TRANSLITERATE" THEN transliterate(text)
  ELSE IF action = "INVERT_CASE" THEN invert_case(text)
  ELSE IF action = "NUM_TO_WORDS"
  THEN LET val == number_to_text(text, installed)
       IN  IF Truthy(val) THEN val[1] ELSE text
  ELSE switch_layout(text)

\* Variant of the second part of _perform_selection_correction without the
\* "new_text == text" test: C14_RoundTripOrder tells it from the source.
selection_process_always(t, got, installed) ==
  IF ~Truthy(got)
  THEN [ t EXCEPT !.pc = "done", !.log = @ \o << "get_text" >>, !.text = got ]
  ELSE [ t EXCEPT !.pc = "sleep_paste",
                  !.log = @ \o << "get_text", "process", "set_text", "sleep" >>,
                  !.text = got,
                  !.new_text = Some(selection_new_text(t.action, got[1], installed)) ]

\* _perform_selection_correction from the end of the first sleep to the second
\* sleep or the return: get_text returned got (None, or <<text>>); the task
\* afterwards. The task is at "sleep_paste" exactly when set_text was called.
selection_process(t, got, installed) ==
  IF ~Truthy(got)
  THEN [ t EXCEPT !.pc = "done", !.log = @ \o << "get_text" >>, !.text = got ]
  ELSE LET new_text == selection_new_text(t.action, got[1], installed) IN
       IF new_text = got[1]
       THEN [ t EXCEPT !.pc = "done", !.log = @ \o << "get_text", "process" >>,
                       !.text = got, !.new_text = Some(new_text) ]
       ELSE [ t EXCEPT !.pc = "sleep_paste",
                       !.log = @ \o << "get_text", "process", "set_text", "sleep" >>,
                       !.text = got, !.new_text = Some(new_text) ]

\* The tasks without the i-th one.
RemoveAt(tasks, i) ==
  SubSeq(tasks, 1, i - 1) \o SubSeq(tasks, i + 1, Len(tasks))

\* A step of a selection task that is no key event: what it writes on the
\* virtual keyboard (one of the first MaxFailAt write attempts may raise
\* OSError) and how the host reacts.
SelectionEmit(calls) ==
  LET n == IF Attempts(calls) < MaxFailAt THEN Attempts(calls) ELSE MaxFailAt
  IN  /\ evt' = [kind |-> "selection", code |-> 0, value |-> 0]
      /\ window' = None
      /\ res' = Result("NONE")
      /\ \E fail_at \in 0..(IF injector_ui THEN n ELSE 0) :
           /\ emitted' = injector_emit(injector_ui, calls, fail_at)
           /\ wfail' = (fail_at # 0)
      /\ host_layout' = host_after(host_layout, phys_mods, 0, 0, emitted')
      /\ UNCHANGED << analyzer, config, current_layout_index, injector_ui,
                      phys_mods >>

\* _perform_selection_correction, the i-th task, up to the first sleep:
\* send_combo([KEY_LEFTCTRL], KEY_C).
SelectionCopy(i) ==
  /\ sel_tasks[i].pc = "start"
  /\ sel_tasks' = [ sel_tasks EXCEPT ![i].pc = "sleep_copy",
                                     ![i].log = << "send_combo_c", "sleep" >> ]
  /\ SelectionEmit(send_combo(<< KEY_LEFTCTRL >>, KEY_C))
  /\ UNCHANGED clipboard

\* _perform_selection_correction, the i-th task, from the first sleep on:
\* get_text returns got; set_text stores the new text unless its subprocess
\* fails (stored is false), which is logged and ignored.
SelectionProcess(i, got, installed, stored) ==
  LET t == selection_process(sel_tasks[i], got, installed) IN
  /\ sel_tasks[i].pc = "sleep_copy"
  /\ IF t.pc = "done"
     THEN /\ sel_tasks' = RemoveAt(sel_tasks, i)
          /\ UNCHANGED clipboard
     ELSE /\ sel_tasks' = [ sel_tasks EXCEPT ![i] = t ]
          /\ clipboard' = IF stored THEN t.new_text ELSE clipboard
  /\ SelectionEmit(<<>>)

\* _perform_selection_correction, the i-th task, after the second sleep:
\* send_combo([KEY_LEFTCTRL], KEY_V), and the task ends.
SelectionPaste(i) ==
  /\ sel_tasks[i].pc = "sleep_paste"
  /\ sel_tasks' = RemoveAt(sel_tasks, i)
  /\ SelectionEmit(send_combo(<< KEY_LEFTCTRL >>, KEY_V))
  /\ UNCHANGED clipboard

\* One physical key event (code, value) delivered by a device reader to
\* PuntoService.on_input_event; one of the first MaxFailAt uinput write
\* attempts may raise OSError.
OnInputEvent(code, value) ==
  LET pk == process_key(analyzer, code, value)
      d  == dispatch(pk.analyzer, config, current_layout_index, pk.res)
      n  == IF Attempts(d.calls) < MaxFailAt THEN Attempts(d.calls) ELSE MaxFailAt
  IN  /\ d.spawn # None => Len(sel_tasks) < MaxSelTasks
      /\ analyzer' = d.analyzer
      /\ current_layout_index' = d.current_layout_index
      /\ sel_tasks' = IF d.spawn = None THEN sel_tasks
                      ELSE Append(sel_tasks, create_task(d.spawn[1]))
      /\ evt' = [kind |-> "key", code |-> code, value |-> value]
      /\ res' = pk.res
      /\ \E fail_at \in 0..(IF injector_ui THEN n ELSE 0) :
           /\ emitted' = injector_emit(injector_ui, d.calls, fail_at)
           /\ wfail' = (fail_at # 0)
      /\ host_layout' = host_after(host_layout, phys_mods, code, value, emitted')
      /\ phys_mods' = held_after(phys_mods, code, value)
      /\ window' = None
      /\ UNCHANGED << config, injector_ui, clipboard >>

\* _perform_switch(key_codes) when sound.play raises (the worker thread
\* cannot be started): the backspaces and the chord are sent and the shadow
\* layout is flipped; the retyping and analyzer.reset() are not reached.
perform_switch_raises(a, cfg, cur, key_codes) ==
  [ analyzer |-> a,
    current_layout_index |-> 1 - cur,
    calls |-> backspace(Len(key_codes))
              \o switch_layout_keys(cfg.layout_switch_hotkey),
    spawn |-> None ]

\* on_input_event reaches _perform_switch for the result r.
reaches_perform_switch(cur, r) ==
  /\ Truthy(r.payload)
  /\ \/ r.action = "SWITCH_LAYOUT" /\ r.target_layout_index # cur
     \/ r.action = "CORRECT_WRONG_LAYOUT"

\* One physical key event (code, value) whose handling raises inside
\* _perform_switch: the exception leaves on_input_event and is caught and
\* logged by _monitor_device, which goes on reading.
OnInputEventRaises(code, value) ==
  LET pk == process_key(analyzer, code, value)
      d  == perform_switch_raises(pk.analyzer, config, current_layout_index,
                                  pk.res.payload[1])
      n  == IF Attempts(d.calls) < MaxFailAt THEN Attempts(d.calls) ELSE MaxFailAt
  IN  /\ reaches_perform_switch(current_layout_index, pk.res)
      /\ analyzer' = d.analyzer
      /\ current_layout_index' = d.current_layout_index
      /\ evt' = [kind |-> "key_error", code |-> code, value |-> value]
      /\ res' = pk.res
      /\ \E fail_at \in 0..(IF injector_ui THEN n ELSE 0) :
           /\ emitted' = injector_emit(injector_ui, d.calls, fail_at)
           /\ wfail' = (fail_at # 0)
      /\ host_layout' = host_after(host_layout, phys_mods, code, value, emitted')
      /\ phys_mods' = held_after(phys_mods, code, value)
      /\ window' = None
      /\ UNCHANGED << config, injector_ui, sel_tasks, clipboard >>

\* "blocked_title in title": blocked_title is a contiguous part of title
\* (titles are modelled as sequences of words).
Contains(title, blocked_title) ==
  \E i \in 1..(Len(title) + 1) :
    /\ i + Len(blocked_title) - 1 <= Len(title)
    /\ SubSeq(title, i, i + Len(blocked_title) - 1) = blocked_title

\* Variant of the blacklist test that consults the first entry only:
\* C18_PollSetsPause tells it from the source.
is_blacklisted_first(cfg, title) ==
  /\ cfg.exceptions.window_titles # <<>>
  /\ cfg.exceptions.window_titles[1] # <<>>
  /\ Contains(title, cfg.exceptions.window_titles[1])

\* _check_active_window: the value handed to set_paused for a window title.
is_blacklisted(cfg, title) ==
  \E i \in 1..Len(cfg.exceptions.window_titles) :
    /\ cfg.exceptions.window_titles[i] # <<>>
    /\ Contains(title, cfg.exceptions.window_titles[i])

\* PuntoService._check_active_window with get_active_window_info() returning
\* info: None, or <<title>>.
CheckActiveWindow(info) ==
  /\ analyzer' = IF info = None THEN analyzer
                 ELSE set_paused(analyzer, is_blacklisted(config, info[1]))
  /\ window' = info
  /\ evt' = [kind |-> "poll", code |-> 0, value |-> 0]
  /\ res' = Result("NONE")
  /\ emitted' = <<>>
  /\ wfail' = FALSE
  /\ UNCHANGED << config, current_layout_index, injector_ui, sel_tasks,
                  clipboard, host_layout, phys_mods >>

\* A variant of reload_config that builds a fresh Analyzer from the old
\* snapshot when the load raises.
reload_config_reset(cfg, a, loaded) ==
  IF loaded = None
  THEN [config |-> cfg, analyzer |-> new_analyzer(cfg)]
  ELSE [config |-> loaded[1], analyzer |-> new_analyzer(loaded[1])]

\* The body of PuntoService.reload_config on the snapshot cfg and Analyzer a:
\* loaded is None when config_manager.load() raises (the assignments of the try
\* block are never reached), else <<snapshot>>.
reload_config(cfg, a, loaded) ==
  IF loaded = None
  THEN [config |-> cfg, analyzer |-> a]
  ELSE [config |-> loaded[1], analyzer |-> new_analyzer(loaded[1])]

\* PuntoService.reload_config as the SIGHUP handler; the last step is recorded
\* as "reload_error" when the except branch ran.
ReloadConfig(loaded) ==
  /\ config' = reload_config(config, analyzer, loaded).config
  /\ analyzer' = reload_config(config, analyzer, loaded).analyzer
  /\ window' = None
  /\ evt' = [kind |-> IF loaded = None THEN "reload_error" ELSE "reload",
             code |-> 0, value |-> 0]
  /\ res' = Result("NONE")
  /\ emitted' = <<>>
  /\ wfail' = FALSE
  /\ UNCHANGED << current_layout_index, injector_ui, sel_tasks,
                  clipboard, host_layout, phys_mods >>

\* --------------------------------------------------------------- input tap

\* Injector._ensure_uinput: the name the virtual keyboard is created with.
VirtualName == "punto-virtual-keyboard"

\* Environment: the device nodes of the host, path -> name and the keys its
\* EV_KEY capability lists. The virtual keyboard advertises every key.
Devices ==
  [ event0 |-> [name |-> "AT keyboard", keys |-> {KEY_A, KEY_ENTER, KEY_F}],
    event1 |-> [name |-> "Power Button", keys |-> {KEY_ENTER}],
    event2 |-> [name |-> "USB keyboard", keys |-> {KEY_A, KEY_ENTER, KEY_F}],
    uinput |-> [name |-> VirtualName, keys |-> {KEY_A, KEY_ENTER, KEY_F}] ]

\* The path of the node the kernel creates for the virtual keyboard.
VirtualPath == "uinput"

\* The paths of physical devices: they come and go.
PhysicalPaths == DOMAIN Devices \ {VirtualPath}

\* InputHandler._is_keyboard(device).
is_keyboard(device) == KEY_A \in device.keys /\ KEY_ENTER \in device.keys

\* Variant of the own-device test that never recognises the virtual keyboard:
\* C1_NoReaderOnOwnDevice tells it from the source.
never_own(device) == FALSE

\* _scan_devices: device.name == "punto-virtual-keyboard".
is_own_device(device) == device.name = "punto-virtual-keyboard"

\* InputHandler.__init__: the empty registry; no reader task exists.
NoMonitors == [ p \in {} |-> 0 ]
NoReaders == [ t \in {} |-> [path |-> "", cancelled |-> FALSE] ]

\* Task.cancel() on the reader task registered for each path of paths.
cancel_readers(rd, mon, paths) ==
  [ t \in DOMAIN rd |->
      IF \E p \in paths : mon[p] = t
      THEN [rd[t] EXCEPT !.cancelled = TRUE] ELSE rd[t] ]

\* A function without the argument x.
Drop(f, x) == [ y \in DOMAIN f \ {x} |-> f[y] ]

\* InputHandler._start_monitor for each path of paths: a new task per path,
\* registered under the path.
RECURSIVE start_monitors(_, _, _)
start_monitors(mon, rd, paths) ==
  IF paths = {} THEN [monitors |-> mon, readers |-> rd]
  ELSE LET p == CHOOSE q \in paths : TRUE
           t == CHOOSE n \in 1..MaxTasks :
                  n \notin DOMAIN rd /\ \A m \in 1..(n - 1) : m \in DOMAIN rd
       IN  start_monitors((p :> t) @@ mon,
                          (t :> [path |-> p, cancelled |-> FALSE]) @@ rd,
                          paths \ {p})

\* The paths a sweep starts a reader for: new, opened, a keyboard, not our own.
to_monitor(mon, found, failing) ==
  { p \in (found \ DOMAIN mon) \ failing :
      is_keyboard(Devices[p]) /\ ~is_own_device(Devices[p]) }

\* Variant of _scan_devices that forgets the readers of the paths that are
\* gone without cancelling them.
scan_devices_forget(mon, rd, found, failing) ==
  LET gone == DOMAIN mon \ found
      kept == [ p \in DOMAIN mon \ gone |-> mon[p] ]
  IN  start_monitors(kept, rd, to_monitor(mon, found, failing))

\* InputHandler._scan_devices with list_devices() returning found and
\* evdev.InputDevice(path) raising OSError for the paths in failing.
scan_devices(mon, rd, found, failing) ==
  LET gone == DOMAIN mon \ found
      kept == [ p \in DOMAIN mon \ gone |-> mon[p] ]
  IN  start_monitors(kept, cancel_readers(rd, mon, gone),
                     to_monitor(mon, found, failing))

\* One sweep of the tap over the devices present.
Sweep ==
  \E failing \in SUBSET (present \ DOMAIN monitors) :
    /\ Cardinality(DOMAIN readers)
         + Cardinality(to_monitor(monitors, present, failing)) <= MaxTasks
    /\ LET after == scan_devices(monitors, readers, present, failing)
       IN  /\ monitors' = after.monitors
           /\ readers' = after.readers
    /\ seen' = (present \ DOMAIN monitors) \ failing

\* InputHandler.start: should_run, the first sweep, the scanner task.
handler_start ==
  /\ should_run' = TRUE
  /\ Sweep
  /\ scanner' = "running"

TapStart ==
  /\ scanner = "none"
  /\ handler_start
  /\ UNCHANGED << svars, rvars, fed, present, source >>

\* _device_scanner_loop: one iteration while should_run.
TapScan ==
  /\ scanner = "running"
  /\ should_run
  /\ Sweep
  /\ UNCHANGED << svars, rvars, fed, present, should_run, scanner, source >>

\* _device_scanner_loop: the loop ends once should_run is false.
ScannerExit ==
  /\ scanner = "running"
  /\ ~should_run
  /\ scanner' = "done"
  /\ UNCHANGED << svars, rvars, fed, present, monitors, readers, should_run, seen, source >>

\* Variant of stop() that clears the registry without cancelling the readers.
handler_stop_forget ==
  /\ should_run' = FALSE
  /\ readers' = readers
  /\ monitors' = NoMonitors

\* InputHandler.stop: cancel every registered reader, clear the registry.
handler_stop ==
  /\ should_run' = FALSE
  /\ readers' = cancel_readers(readers, monitors, DOMAIN monitors)
  /\ monitors' = NoMonitors

TapStop ==
  /\ should_run
  /\ handler_stop
  /\ UNCHANGED << svars, rvars, fed, present, scanner, seen, source >>

\* Variant of the finally block that clears the whole registry.
monitor_finally_all(t) ==
  /\ monitors' = NoMonitors
  /\ readers' = Drop(readers, t)

\* _monitor_device, the finally block of task t: the registry entry of the
\* task's path is deleted if there is one, and the task ends.
monitor_finally(t) ==
  /\ monitors' = IF readers[t].path \in DOMAIN monitors
                 THEN Drop(monitors, readers[t].path) ELSE monitors
  /\ readers' = Drop(readers, t)

\* _monitor_device: the read loop of reader t raises OSError; the except
\* branch logs and the finally block runs. The step is recorded in evt.
ReadErrorOf(t) ==
  /\ ~readers[t].cancelled
  /\ monitor_finally(t)
  /\ evt' = [kind |-> "read_error", code |-> 0, value |-> 0]
  /\ UNCHANGED << analyzer, config, current_layout_index, injector_ui,
                  sel_tasks, clipboard, window, host_layout, phys_mods, res,
                  emitted, wfail, fed, present, should_run, scanner, seen,
                  source, running, run_pc >>

ReadError == \E t \in DOMAIN readers : ReadErrorOf(t)

\* _monitor_device: a cancelled reader receives CancelledError.
ReaderExit ==
  \E t \in DOMAIN readers :
    /\ readers[t].cancelled
    /\ monitor_finally(t)
    /\ UNCHANGED << svars, rvars, fed, present, should_run, scanner, seen, source >>

\* Environment: a physical device is plugged in or removed.
DeviceAppear ==
  \E p \in PhysicalPaths \ present :
    /\ present' = present \cup {p}
    /\ UNCHANGED << svars, rvars, fed, monitors, readers, should_run, scanner, seen, source >>

DeviceDisappear ==
  \E p \in PhysicalPaths \cap present :
    /\ present' = present \ {p}
    /\ UNCHANGED << svars, rvars, fed, monitors, readers, should_run, scanner, seen, source >>

\* The EV_KEY events a device produces in SpecTap.
TapEvents == { << KEY_F, 1 >> }

\* _monitor_device: a reader that is not cancelled reads an EV_KEY event of
\* its device and awaits the callback, PuntoService.on_input_event.
Deliver ==
  \E t \in DOMAIN readers : \E e \in TapEvents :
    /\ ~readers[t].cancelled
    /\ readers[t].path \in present
    /\ e[1] \in Devices[readers[t].path].keys
    /\ OnInputEvent(e[1], e[2])
    /\ Len(analyzer'.buffer) <= MaxBuf
    /\ source' = Devices[readers[t].path].name
    /\ UNCHANGED << rvars, fed, present, monitors, readers, should_run, scanner,
                    seen >>

\* ------------------------------------------------------------ environment

\* Words and texts are sequences of characters.
Word_fu == << "f", "u" >>
Word_uf == << "u", "f" >>
Word_gg == << "cy_g", "cy_g" >>
Text_Uf == << "U", "f" >>
Text_u_f == << "u", " ", "f" >>
Text_empty == << >>

\* Window titles the active-window collaborator reports.
Titles == { << "Doom", "II" >>, << "Terminal" >> }

\* ConfigManager.get_default.
get_default ==
  [ layout_switch_hotkey |-> DefaultChord,
    autoreplace |-> [w \in {} |-> <<>>],
    autocorrect |-> [w \in {} |-> <<>>],
    exceptions |-> [processes |-> <<>>, window_titles |-> <<>>],
    auto_switch_enabled |-> TRUE, sound_enabled |-> TRUE ]

\* Config snapshots config_manager.load() produces in the model.
ConfigA ==
  [ layout_switch_hotkey |-> DefaultChord,
    autoreplace |-> (Word_fu :> Text_Uf) @@ (Word_uf :> Text_empty)
                    @@ (<< "cy_a", "cy_g" >> :> Text_u_f),
    autocorrect |-> (Word_gg :> Text_u_f) @@ (Word_fu :> Text_u_f),
    exceptions |-> [processes |-> <<>>, window_titles |-> << <<>>, <<"Doom">> >>],
    auto_switch_enabled |-> TRUE, sound_enabled |-> TRUE ]

ConfigC ==
  [ layout_switch_hotkey |-> <<>>,
    autoreplace |-> (<< "cy_g", "cy_a" >> :> Text_Uf),
    autocorrect |-> (Word_uf :> Text_u_f) @@ (<< "f" >> :> Text_Uf)
                    @@ (<< "cy_a" >> :> Text_u_f),
    exceptions |-> [processes |-> <<>>, window_titles |-> <<>>],
    auto_switch_enabled |-> FALSE, sound_enabled |-> TRUE ]

Configs == { ConfigA, ConfigC }

\* The key events <<code, value>> the environment produces in Spec: value 1
\* is a key-down, 0 a key-up, 2 a key-repeat.
SpecEvents ==
  { << KEY_F, 1 >>, << KEY_F, 0 >>,
    << KEY_U, 1 >>, << KEY_U, 2 >>,
    << KEY_SPACE, 1 >>, << KEY_SPACE, 2 >>,
    << KEY_COMMA, 1 >>,
    << KEY_BACKSPACE, 1 >>,
    << KEY_PAUSE, 1 >>,
    << KEY_ESC, 1 >>,
    << KEY_LEFTMETA, 1 >>, << KEY_LEFTMETA, 0 >> }

\* The words the user types in SpecWord, as scancodes: "privet" typed with the
\* host in the English layout, "hello", and "kak" and "net" typed in the
\* English layout.
Gibberish == << KEY_G, KEY_H, KEY_B, KEY_D, KEY_T, KEY_N >>
Words == { Gibberish,
           << KEY_H, KEY_E, KEY_L, KEY_L, KEY_O >>,
           << KEY_R, KEY_F, KEY_R >>,
           << KEY_Y, KEY_T, KEY_N >> }

\* The printable keys typed into the Analyzer in SpecScore: a consonant in
\* both layouts, a vowel/consonant, a consonant/vowel, and a key that is
\* alphabetic in neither layout.
ScoreKeys == { KEY_G, KEY_U, KEY_F, KEY_SLASH }

\* -------------------------------------------------------------------- Spec

NoEvent == [kind |-> "init", code |-> 0, value |-> 0]

\* PuntoService.__init__ with the snapshot cfg loaded.
InitService(cfg) ==
  /\ config = cfg
  /\ analyzer = new_analyzer(cfg)
  /\ current_layout_index = 0
  /\ injector_ui = TRUE
  /\ sel_tasks = <<>>
  /\ clipboard = None
  /\ window = None
  /\ phys_mods = {}
  /\ evt = NoEvent
  /\ res = Result("NONE")
  /\ emitted = <<>>
  /\ wfail = FALSE
  /\ fed = <<>>

\* InputHandler.__init__.
InitTap ==
  /\ monitors = NoMonitors
  /\ readers = NoReaders
  /\ should_run = FALSE
  /\ scanner = "none"
  /\ seen = {}
  /\ source = "none"

\* The service in its main loop, the tap after start() with the two keyboards
\* found: the state the tap keeps in the specifications that leave the devices
\* and the life cycle alone.
TapSteady ==
  /\ present = DOMAIN Devices
  /\ monitors = ("event0" :> 1) @@ ("event2" :> 2)
  /\ readers = (1 :> [path |-> "event0", cancelled |-> FALSE]) @@
               (2 :> [path |-> "event2", cancelled |-> FALSE])
  /\ should_run = TRUE
  /\ scanner = "running"
  /\ seen = DOMAIN Devices
  /\ source = "AT keyboard"
  /\ running = TRUE
  /\ run_pc = "sleep"

Init ==
  /\ \E cfg \in Configs : InitService(cfg)
  /\ host_layout \in {0, 1}
  /\ TapSteady

\* A key event typed on the monitored keyboard; the word buffer is kept within
\* MaxBuf by the environment.
KeyEvent ==
  \E e \in SpecEvents :
    /\ OnInputEvent(e[1], e[2])
    /\ Len(analyzer'.buffer) <= MaxBuf
    /\ UNCHANGED << fed, tvars, rvars >>

\* The one-second poll of the active window.
WindowPoll ==
  \E info \in {None} \cup { Some(t) : t \in Titles } :
    CheckActiveWindow(info) /\ UNCHANGED << fed, tvars, rvars >>

\* SIGHUP.
Reload ==
  \E loaded \in {None} \cup { Some(c) : c \in Configs } :
    ReloadConfig(loaded) /\ UNCHANGED << fed, tvars, rvars >>

Next == KeyEvent \/ WindowPoll \/ Reload

vars == << svars, fed, tvars, rvars >>

Spec == Init /\ [][Next]_vars

\* ---------------------------------------------------------------- SpecWord

\* The service with the default configuration; the user types one word of
\* Words from the start, key by key, releasing keys in between.
InitWord ==
  /\ InitService(get_default)
  /\ host_layout \in {0, 1}
  /\ TapSteady

WordKeyDown ==
  \E w \in Words :
    /\ Len(fed) < Len(w)
    /\ Len(fed) < MaxWord
    /\ fed = SubSeq(w, 1, Len(fed))
    /\ OnInputEvent(w[Len(fed) + 1], 1)
    /\ fed' = Append(fed, w[Len(fed) + 1])
    /\ UNCHANGED << tvars, rvars >>

WordKeyUp ==
  \E i \in 1..Len(fed) :
    /\ OnInputEvent(fed[i], 0)
    /\ UNCHANGED << fed, tvars, rvars >>

NextWord == WordKeyDown \/ WordKeyUp

SpecWord == InitWord /\ [][NextWord]_vars

\* --------------------------------------------------------------- SpecScore

\* InputAnalyzer.process_key called on the Analyzer alone.
ProcessKey(code, value) ==
  LET pk == process_key(analyzer, code, value)
  IN  /\ analyzer' = pk.analyzer
      /\ res' = pk.res
      /\ evt' = [kind |-> "key", code |-> code, value |-> value]

\* The Analyzer of the default configuration; printable keys are typed into it.
InitScore ==
  /\ InitService(get_default)
  /\ host_layout = 0
  /\ TapSteady

ScoreKey ==
  \E k \in ScoreKeys :
    /\ Len(analyzer.buffer) < MaxScore
    /\ ProcessKey(k, 1)
    /\ UNCHANGED << config, current_layout_index, injector_ui, sel_tasks,
                    clipboard, window, host_layout, phys_mods, emitted, wfail,
                    fed, tvars, rvars >>

NextScore == ScoreKey

SpecScore == InitScore /\ [][NextScore]_vars

\* ----------------------------------------------------------------- SpecTap

\* The service constructed with the default configuration, the tap not yet
\* started; the virtual keyboard exists, physical devices come and go.
InitTapSpec ==
  /\ InitService(get_default)
  /\ host_layout = 0
  /\ InitTap
  /\ \E phys \in SUBSET PhysicalPaths : present = phys \cup {VirtualPath}
  /\ running = FALSE
  /\ run_pc = "start"

NextTap ==
  \/ TapStart
  \/ TapScan
  \/ ScannerExit
  \/ TapStop
  \/ ReadError
  \/ ReaderExit
  \/ DeviceAppear
  \/ DeviceDisappear
  \/ Deliver

SpecTap == InitTapSpec /\ [][NextTap]_vars

\* SpecTap under the scheduling of the event loop: a cancelled reader is woken
\* on the next iteration of the loop, before any other step of the tap.
NextTapPrompt ==
  IF \E t \in DOMAIN readers : readers[t].cancelled
  THEN ReaderExit
  ELSE NextTap

SpecTapPrompt == InitTapSpec /\ [][NextTapPrompt]_vars

\* ----------------------------------------------------------------- SpecSel

\* The texts get_text() returns after Ctrl+C: a Cyrillic letter followed by a
\* Latin capital (changed by the layout swap, the case inversion and the
\* transliteration, no number), a number (changed by number-to-words only),
\* the empty text; None stands for a failed or timed-out read.
ClipReads ==
  { None, Some(Text_empty), Some(<< "cy_zh", "U" >>), Some(<< "7" >>) }

\* The key events of SpecSel: the hotkey, a letter, and the left modifiers
\* that select the hotkey's action.
SelEvents ==
  { << KEY_PAUSE, 1 >>, << KEY_F, 1 >>,
    << KEY_LEFTCTRL, 1 >>, << KEY_LEFTCTRL, 0 >>,
    << KEY_LEFTSHIFT, 1 >>, << KEY_LEFTSHIFT, 0 >>,
    << KEY_LEFTALT, 1 >>, << KEY_LEFTALT, 0 >> }

\* The service with the default configuration; the user presses the hotkey
\* with and without a word typed, and the selection tasks run in between.
InitSel ==
  /\ InitService(get_default)
  /\ host_layout = 0
  /\ TapSteady

SelKey ==
  \E e \in SelEvents :
    /\ OnInputEvent(e[1], e[2])
    /\ Len(analyzer'.buffer) <= MaxSelBuf
    /\ UNCHANGED << fed, tvars, rvars >>

SelCopy ==
  \E i \in DOMAIN sel_tasks : SelectionCopy(i) /\ UNCHANGED << fed, tvars, rvars >>

SelProcess ==
  \E i \in DOMAIN sel_tasks : \E got \in ClipReads :
    \E installed \in BOOLEAN : \E stored \in BOOLEAN :
      SelectionProcess(i, got, installed, stored) /\ UNCHANGED << fed, tvars, rvars >>

SelPaste ==
  \E i \in DOMAIN sel_tasks : SelectionPaste(i) /\ UNCHANGED << fed, tvars, rvars >>

NextSel == SelKey \/ SelCopy \/ SelProcess \/ SelPaste

SpecSel == InitSel /\ [][NextSel]_vars

\* --------------------------------------------------------------- SpecPause

\* The key events typed into the Analyzer in SpecPause: the hotkey, a letter,
\* and both keys of Ctrl, Shift and Alt.
PauseEvents ==
  { << KEY_PAUSE, 1 >>, << KEY_F, 1 >>, << KEY_U, 1 >>, << KEY_LEFTSHIFT, 2 >>,
    << KEY_BACKSPACE, 0 >>, << KEY_BACKSPACE, 1 >>, << KEY_BACKSPACE, 2 >> } \cup
  ( MODIFIERS \X { 0, 1 } )

\* The Analyzer of the default configuration; the hotkey is pressed under
\* every combination of held modifiers, with and without a word typed.
InitPause ==
  /\ InitService(get_default)
  /\ host_layout = 0
  /\ TapSteady

PauseKey ==
  \E e \in PauseEvents :
    /\ ProcessKey(e[1], e[2])
    /\ Len(analyzer'.buffer) <= MaxPauseBuf
    /\ UNCHANGED << config, current_layout_index, injector_ui, sel_tasks,
                    clipboard, window, host_layout, phys_mods, emitted, wfail,
                    fed, tvars, rvars >>

SpecPause == InitPause /\ [][PauseKey]_vars

\* --------------------------------------------------------------- SpecRaise

\* The key events of SpecRaise: two letters, the hotkey and a word boundary.
RaiseEvents ==
  { << KEY_F, 1 >>, << KEY_U, 1 >>, << KEY_PAUSE, 1 >>, << KEY_SPACE, 1 >> }

\* The service with the default configuration; the handling of a key event
\* may raise where on_input_event calls into the sound engine.
InitRaise ==
  /\ InitService(get_default)
  /\ host_layout \in {0, 1}
  /\ TapSteady

RaiseKey ==
  \E e \in RaiseEvents :
    /\ OnInputEvent(e[1], e[2])
    /\ Len(analyzer'.buffer) <= MaxBuf
    /\ UNCHANGED << fed, tvars, rvars >>

RaiseKeyError ==
  \E e \in RaiseEvents :
    /\ OnInputEventRaises(e[1], e[2])
    /\ Len(analyzer'.buffer) <= MaxBuf
    /\ UNCHANGED << fed, tvars, rvars >>

NextRaise == RaiseKey \/ RaiseKeyError

SpecRaise == InitRaise /\ [][NextRaise]_vars

\* ------------------------------------------------------------ text functions
\* The characters of the two layouts' alphabets, lower and upper case, and a
\* character outside them.
LayoutChars ==
  { EN_CHARS[i] : i \in DOMAIN EN_CHARS } \cup { RU_CHARS[i] : i \in DOMAIN RU_CHARS }

\* The texts the functions are applied to: the empty text, every character
\* alone, and longer texts that mix cases, layouts and an unknown character.
Texts ==
  { <<>> } \cup { <<ch>> : ch \in LayoutChars \cup {"7"} }
    \cup { <<a, b>> : a \in {"f", "U", "cy_b", "7"}, b \in {"CY_G", ".", "7"} }
    \cup { <<"U", "7", "cy_b">>, <<"7", "7", "f", "CY_G">> }

\* The service with the text s selected and copied.
InitText ==
  /\ \E s \in Texts : clipboard = Some(s)
  /\ config = get_default
  /\ analyzer = new_analyzer(get_default)
  /\ current_layout_index = 0
  /\ injector_ui = TRUE
  /\ sel_tasks = <<>>
  /\ window = None
  /\ host_layout = 0
  /\ phys_mods = {}
  /\ evt = NoEvent
  /\ res = Result("NONE")
  /\ emitted = <<>>
  /\ wfail = FALSE
  /\ fed = <<>>
  /\ TapSteady

\* converters.switch_layout applied to the copied text, the result stored.
TextSwitch ==
  /\ clipboard' = Some(switch_layout(clipboard[1]))
  /\ evt' = [kind |-> "switch_layout", code |-> 0, value |-> 0]
  /\ emitted' = <<>>
  /\ UNCHANGED << analyzer, config, current_layout_index, injector_ui,
                  sel_tasks, window, host_layout, phys_mods, res, wfail, fed,
                  tvars, rvars >>

\* Injector.type_string applied to the copied text, no write failing.
TextType ==
  /\ emitted' = injector_emit(injector_ui, type_string(clipboard[1]), 0)
  /\ evt' = [kind |-> "type_string", code |-> 0, value |-> 0]
  /\ UNCHANGED << analyzer, config, current_layout_index, injector_ui,
                  sel_tasks, clipboard, window, host_layout, phys_mods, res,
                  wfail, fed, tvars, rvars >>

NextText == TextSwitch \/ TextType

SpecText == InitText /\ [][NextText]_vars

\* ------------------------------------------------------------ chord emission
\* The keys switch chords are made of, and the chords: every list of up to
\* MaxChord of them, the empty one included.
ChordKeys == { KEY_LEFTMETA, KEY_LEFTALT, KEY_LEFTSHIFT, KEY_SPACE }
Chords == UNION { [ 1..n -> ChordKeys ] : n \in 0..MaxChord }

\* The service constructed with a snapshot whose switch chord is one of Chords.
InitChord ==
  /\ \E ch \in Chords :
       InitService([get_default EXCEPT !.layout_switch_hotkey = ch])
  /\ host_layout = 0
  /\ TapSteady

\* The calls are made on the virtual keyboard; one of the write attempts may
\* raise OSError.
ChordEmit(kind, calls) ==
  /\ \E fail_at \in 0..Attempts(calls) :
       /\ emitted' = injector_emit(injector_ui, calls, fail_at)
       /\ wfail' = (fail_at # 0)
  /\ evt' = [kind |-> kind, code |-> 0, value |-> 0]
  /\ UNCHANGED << analyzer, config, current_layout_index, injector_ui,
                  sel_tasks, clipboard, window, host_layout, phys_mods, res, fed,
                  tvars, rvars >>

\* Injector.switch_layout(config.layout_switch_hotkey).
ChordSwitch == ChordEmit("switch_keys", switch_layout_keys(config.layout_switch_hotkey))

\* Injector.send_combo(chord[:-1], chord[-1]) for the configured chord.
ChordCombo ==
  LET ch == config.layout_switch_hotkey IN
  /\ ch # <<>>
  /\ ChordEmit("send_combo", send_combo(SubSeq(ch, 1, Len(ch) - 1), ch[Len(ch)]))

NextChord == ChordSwitch \/ ChordCombo

SpecChord == InitChord /\ [][NextChord]_vars

\* ------------------------------------------------------------ SpecModChord

\* The configured chords whose last element is a modifier scancode.
ModChords == { ch \in Chords : ch # <<>> /\ ch[Len(ch)] \in MODIFIERS }

\* The key events typed in SpecModChord: every chord key down, up and
\* repeated, and a letter.
ModChordEvents == ( ChordKeys \X { 0, 1, 2 } ) \cup { << KEY_F, 1 >> }

\* The service started with a chord that ends in a modifier.
InitModChord ==
  /\ \E ch \in ModChords :
       InitService([get_default EXCEPT !.layout_switch_hotkey = ch])
  /\ host_layout = 0
  /\ TapSteady

ModChordKey ==
  \E e \in ModChordEvents :
    /\ OnInputEvent(e[1], e[2])
    /\ Len(analyzer'.buffer) <= MaxPauseBuf
    /\ UNCHANGED << fed, tvars, rvars >>

SpecModChord == InitModChord /\ [][ModChordKey]_vars

\* ------------------------------------------------------------ life cycle
\* PuntoService.run from its first statement to the first asyncio.sleep(1):
\* the signal handlers are installed, _running_event is set, handler.start()
\* sweeps and creates the scanner (its awaits do not suspend), and the first
\* iteration of the loop polls the active window.
RunStart ==
  /\ run_pc = "start"
  /\ running' = TRUE
  /\ handler_start
  /\ \E info \in {None} \cup { Some(t) : t \in Titles } : CheckActiveWindow(info)
  /\ run_pc' = "sleep"
  /\ UNCHANGED << fed, present, source >>

\* run(): handler.start() raises (the first sweep cannot list the devices);
\* the finally block runs handler.stop() on the tap that has no reader yet.
RunStartRaises ==
  /\ run_pc = "start"
  /\ running' = TRUE
  /\ handler_stop
  /\ run_pc' = "closing"
  /\ UNCHANGED << svars, fed, present, scanner, seen, source >>

\* run(): the sleep ends, _running_event is set, the window is polled and the
\* loop sleeps again.
RunPoll ==
  /\ run_pc = "sleep"
  /\ running
  /\ \E info \in {None} \cup { Some(t) : t \in Titles } : CheckActiveWindow(info)
  /\ UNCHANGED << fed, tvars, rvars >>

\* run(): the sleep ends and _running_event is clear: the loop exits and the
\* finally block runs up to the end of 'await self.handler.stop()'.
RunExit ==
  /\ run_pc = "sleep"
  /\ ~running
  /\ handler_stop
  /\ run_pc' = "closing"
  /\ UNCHANGED << svars, fed, present, scanner, seen, source, running >>

\* run(): the sleep is cancelled (CancelledError, caught) or the next poll
\* raises; either way the finally block runs handler.stop().
RunAbort ==
  /\ run_pc = "sleep"
  /\ handler_stop
  /\ run_pc' = "closing"
  /\ UNCHANGED << svars, fed, present, scanner, seen, source, running >>

\* run(), the rest of the finally block: injector.close().
RunClose ==
  /\ run_pc = "closing"
  /\ injector_ui' = FALSE
  /\ run_pc' = "done"
  /\ UNCHANGED << analyzer, config, current_layout_index, sel_tasks, clipboard,
                  window, host_layout, phys_mods, evt, res, emitted, wfail, fed,
                  tvars, running >>

\* PuntoService.stop, the handler of SIGINT and SIGTERM, called by the loop
\* while run() is suspended.
ServiceStop ==
  /\ run_pc \in {"sleep", "closing"}
  /\ running
  /\ running' = FALSE
  /\ UNCHANGED << svars, fed, tvars, run_pc >>

\* The service constructed with the default configuration, run() not yet
\* entered; the devices stay as they are.
InitRun ==
  /\ InitService(get_default)
  /\ host_layout = 0
  /\ InitTap
  /\ present = DOMAIN Devices
  /\ running = FALSE
  /\ run_pc = "start"

NextRun ==
  \/ RunStart
  \/ RunStartRaises
  \/ RunPoll
  \/ RunExit
  \/ RunAbort
  \/ RunClose
  \/ ServiceStop
  \/ TapScan
  \/ ScannerExit
  \/ ReadError
  \/ ReaderExit
  \/ Deliver

\* The event loop resumes run() when its sleep of one second is over, and runs
\* the finally block to its end.
SpecRun ==
  InitRun /\ [][NextRun]_vars /\ WF_vars(RunExit) /\ WF_vars(RunClose)

\* -------------------------------------------------------------- properties

\* Vocabulary of the properties: the uinput writes <<code, value>> of a
\* press-release pair per key, of n backspaces, of a chord (pressed in order,
\* released in reverse) and of a whole layout rewrite.
PairWrites(keys) ==
  [ i \in 1..(2 * Len(keys)) |-> << keys[(i + 1) \div 2], i % 2 >> ]
Backspaces(n) == PairWrites([ i \in 1..n |-> KEY_BACKSPACE ])
ChordWrites(chord) ==
  [ i \in 1..Len(chord) |-> << chord[i], 1 >> ] \o
  [ i \in 1..Len(chord) |-> << chord[Len(chord) + 1 - i], 0 >> ]
RewriteWrites(payload, chord) ==
  Backspaces(Len(payload)) \o ChordWrites(chord) \o PairWrites(payload)

\* The last step was the key-down of code.
KeyDown(code) == evt = [kind |-> "key", code |-> code, value |-> 1]

\* The step realizes a SWITCH_LAYOUT: its target differs from the shadow
\* layout the step started with.
RealizedSwitch ==
  /\ res'.action = "SWITCH_LAYOUT"
  /\ Truthy(res'.payload)
  /\ res'.target_layout_index # current_layout_index

\* The step realizes a layout rewrite: a realized SWITCH_LAYOUT, or a
\* CORRECT_WRONG_LAYOUT with a payload.
RealizedRewrite ==
  \/ RealizedSwitch
  \/ res'.action = "CORRECT_WRONG_LAYOUT" /\ Truthy(res'.payload)

\* C1: no reader task and no registry entry exists for a device named
\* 'punto-virtual-keyboard', and no event delivered to on_input_event was
\* read from such a device.
C1_NoReaderOnOwnDevice ==
  /\ \A t \in DOMAIN readers : Devices[readers[t].path].name # VirtualName
  /\ \A p \in DOMAIN monitors : Devices[p].name # VirtualName
  /\ source # VirtualName

\* C1 witness: a sweep opened the virtual keyboard, a physical keyboard is
\* read, and the Executor has just written on the virtual keyboard.
C1_Witness ==
  /\ VirtualPath \in seen
  /\ \E t \in DOMAIN readers : ~readers[t].cancelled
  /\ source = "AT keyboard"
  /\ emitted # <<>>

\* C2 as stated: after the key-downs G, H, B, D, T, N from an empty buffer and
\* shadow layout 0, the sixth key returned SWITCH_LAYOUT with the six keys and
\* target 1, the rewrite of six keys was written, and the shadow layout is 1.
C2_SwitchOnSixthKey ==
  (fed = Gibberish /\ KeyDown(KEY_N)) =>
    /\ res.action = "SWITCH_LAYOUT"
    /\ res.payload = Some(Gibberish)
    /\ res.target_layout_index = 1
    /\ ~wfail => emitted = RewriteWrites(Gibberish, DefaultChord)
    /\ current_layout_index = 1

\* C2 as the code behaves: the first four keys return NONE; the fifth key (T)
\* returns SWITCH_LAYOUT with payload G, H, B, D, T and target 1, the rewrite
\* of five keys is written (when no write fails), the shadow layout becomes 1
\* and the buffer is reset; the sixth key (N) returns NONE and is alone in the
\* buffer.
C2_SwitchOnFifthKey ==
  /\ (Len(fed) < 5 /\ fed = SubSeq(Gibberish, 1, Len(fed))) =>
       /\ res.action = "NONE"
       /\ emitted = <<>>
       /\ current_layout_index = 0
  /\ (fed = SubSeq(Gibberish, 1, 5) /\ KeyDown(KEY_T)) =>
       /\ res.action = "SWITCH_LAYOUT"
       /\ res.payload = Some(SubSeq(Gibberish, 1, 5))
       /\ res.target_layout_index = 1
       /\ ~wfail => emitted = RewriteWrites(SubSeq(Gibberish, 1, 5), DefaultChord)
       /\ current_layout_index = 1
       /\ analyzer.buffer = <<>>
  /\ (fed = Gibberish /\ KeyDown(KEY_N)) =>
       /\ res.action = "NONE"
       /\ emitted = <<>>
       /\ current_layout_index = 1
       /\ analyzer.buffer = << KEY_N >>

\* C2 witness: the fifth key of the scenario has just been rewritten.
C2_Witness ==
  /\ fed = SubSeq(Gibberish, 1, 5)
  /\ KeyDown(KEY_T)
  /\ ~wfail
  /\ emitted = RewriteWrites(fed, DefaultChord)

\* The score of C3, over a rendering s for language index lang: -10 when
\* limit + 1 consonants follow one another among the alphabetic characters of
\* s, else -5 when s has more than 4 characters and no vowel, else +5.
ClaimScore(s, lang) ==
  LET vowels == IF lang = 0 THEN en_vowels ELSE ru_vowels
      limit  == IF lang = 0 THEN 5 ELSE 4
      f      == SelectSeq(s, IsAlpha)
  IN  IF \E i \in 1..Len(f) :
           /\ i + limit <= Len(f)
           /\ \A j \in i..(i + limit) : Lower(f[j]) \notin vowels
      THEN -10
      ELSE IF Len(s) > 4 /\ \A i \in 1..Len(s) : Lower(s[i]) \notin vowels
      THEN -5
      ELSE 5

\* C3: a printable key appended to the buffer returns SWITCH_LAYOUT exactly
\* when the buffer then has at least 3 keys and the verdict is decided, with
\* target 0 iff score(s0) > 0 and score(s1) < 0 and target 1 iff
\* score(s1) > 0 and score(s0) < 0; otherwise it returns NONE; the payload of
\* a SWITCH_LAYOUT is the buffer after the append.
C3_Verdict ==
  evt.kind = "key" =>
    LET s0 == en_word(analyzer.buffer)
        s1 == ru_word(analyzer.buffer)
        decided0 == ClaimScore(s0, 0) > 0 /\ ClaimScore(s1, 1) < 0
        decided1 == ClaimScore(s1, 1) > 0 /\ ClaimScore(s0, 0) < 0
    IN  /\ res.action = "SWITCH_LAYOUT"
             <=> (Len(analyzer.buffer) >= 3 /\ (decided0 \/ decided1))
        /\ res.action = "SWITCH_LAYOUT" =>
             /\ res.target_layout_index = 0 <=> decided0
             /\ res.target_layout_index = 1 <=> decided1
             /\ res.payload = Some(analyzer.buffer)
        /\ res.action # "SWITCH_LAYOUT" => res.action = "NONE"

\* C3 witness: a SWITCH_LAYOUT to layout 0 for a buffer whose second rendering
\* has five consonants around a non-alphabetic character, and a vowel.
C3_Witness ==
  /\ analyzer.buffer = << KEY_U, KEY_U, KEY_SLASH, KEY_U, KEY_U, KEY_U, KEY_F >>
  /\ res.action = "SWITCH_LAYOUT"
  /\ res.target_layout_index = 0

\* C4: a step whose result is a realized SWITCH_LAYOUT or a REPLACE_TEXT
\* leaves the word buffer empty.
C4_BufferEmptyAfterRealized ==
  [][ (RealizedSwitch \/ res'.action = "REPLACE_TEXT")
        => analyzer'.buffer = <<>> ]_vars

\* C4 witness: a realized SWITCH_LAYOUT has been dispatched.
C4_Witness ==
  /\ res.action = "SWITCH_LAYOUT"
  /\ emitted # <<>>
  /\ analyzer.buffer = <<>>

\* C5: after the key-down or key-repeat of a word-boundary key, or of a key
\* that is no modifier, not in the Layout Table, not backspace and not PAUSE,
\* the word buffer is empty.
C5_BoundaryEmptiesBuffer ==
  ( /\ evt.kind = "key"
    /\ evt.value \in {1, 2}
    /\ \/ evt.code \in {KEY_SPACE, KEY_ENTER, KEY_TAB, KEY_COMMA, KEY_DOT}
       \/ /\ evt.code \notin MODIFIERS
          /\ evt.code \notin DOMAIN KEY_MAP
          /\ evt.code \notin {KEY_BACKSPACE, KEY_PAUSE} )
  => analyzer.buffer = <<>>

\* C5 witness: a comma ended a word that matched a replacement.
C5_Witness ==
  /\ KeyDown(KEY_COMMA)
  /\ res.action = "REPLACE_TEXT"
  /\ Len(res.payload[1]) = 2
  /\ analyzer.buffer = <<>>

\* C6: every scancode in the word buffer is a key of the Layout Table, and
\* none is a modifier.
C6_BufferInLayoutTable ==
  \A i \in 1..Len(analyzer.buffer) :
    /\ analyzer.buffer[i] \in DOMAIN KEY_MAP
    /\ analyzer.buffer[i] \notin MODIFIERS

\* C6 witness: a word is in the buffer while a modifier is held.
C6_Witness ==
  /\ analyzer.buffer = << KEY_F, KEY_U >>
  /\ KEY_LEFTMETA \in analyzer.active_modifiers

\* C7: a step that realizes a layout rewrite of payload writes, when no
\* uinput write fails, exactly Len(payload) backspace pairs, the configured
\* chord and a pair per payload key, flips the shadow layout and resets the
\* buffer.
C7_RewriteSequence ==
  [][ RealizedRewrite =>
        /\ ~wfail' =>
             emitted' = RewriteWrites(res'.payload[1], config.layout_switch_hotkey)
        /\ current_layout_index' = 1 - current_layout_index
        /\ analyzer'.buffer = <<>> ]_vars

\* C7 witness: a CORRECT_WRONG_LAYOUT rewrote a word of two keys although the
\* shadow layout was not 0 before.
C7_Witness ==
  /\ res.action = "CORRECT_WRONG_LAYOUT"
  /\ Truthy(res.payload)
  /\ ~wfail
  /\ emitted = RewriteWrites(<< KEY_F, KEY_U >>, DefaultChord)
  /\ current_layout_index = 0

\* C8: a SWITCH_LAYOUT whose target is the shadow layout writes nothing and
\* leaves the shadow layout as it is.
C8_SuppressedSwitch ==
  [][ ( /\ res'.action = "SWITCH_LAYOUT"
        /\ res'.target_layout_index = current_layout_index )
      => /\ emitted' = <<>>
         /\ current_layout_index' = current_layout_index ]_vars

\* C8 witness: a SWITCH_LAYOUT was returned and nothing was rewritten (the
\* buffer still holds the word).
C8_Witness ==
  /\ res.action = "SWITCH_LAYOUT"
  /\ res.target_layout_index = current_layout_index
  /\ analyzer.buffer # <<>>
  /\ emitted = <<>>

C10_ReplaceEmits ==
  (evt.kind = "key" /\ res.action = "REPLACE_TEXT" /\ ~wfail) =>
    emitted = Backspaces(Len(res.payload[1]) + 1)
              \o AllWrites(type_string(res.text_payload[1]))

\* The four lookups of a word-boundary key in the order the claim gives them:
\* autoreplace[s0], autoreplace[s1], autocorrect[s0], autocorrect[s1].
LookupOrder(a) ==
  << << a.autoreplace, en_word(a.buffer) >>,
     << a.autoreplace, ru_word(a.buffer) >>,
     << a.autocorrect, en_word(a.buffer) >>,
     << a.autocorrect, ru_word(a.buffer) >> >>

\* The result the claim expects of a word-boundary key: the value of the
\* first lookup that hits, with the buffer as payload, or NONE.
BoundaryResult(a) ==
  LET order == LookupOrder(a)
      hits  == { i \in 1..4 : order[i][2] \in DOMAIN order[i][1] }
  IN  IF a.buffer = <<>> \/ hits = {} THEN Result("NONE")
      ELSE LET first == CHOOSE i \in hits : \A j \in hits : i <= j
           IN  AnalysisResult("REPLACE_TEXT", 0, 10, Some(a.buffer),
                              Some(order[first][1][order[first][2]]))

\* C11: a word-boundary key (down or repeat) that reaches the boundary rule
\* (Analyzer not paused, key not completing the switch chord) returns
\* REPLACE_TEXT for the first of autoreplace[s0], autoreplace[s1],
\* autocorrect[s0], autocorrect[s1] that has an entry, with the buffer before
\* clearing as payload and the entry as text; with no entry or an empty
\* buffer it returns NONE.
C11_LookupOrder ==
  [][ ( /\ evt'.kind = "key"
        /\ evt'.code \in DELIMITERS
        /\ evt'.value # 0
        /\ ~analyzer.paused
        /\ ~switch_hotkey_hit(analyzer, evt'.code) )
      => res' = BoundaryResult(analyzer) ]_vars

\* A comma after U, F where autoreplace holds the layout-1 rendering and
\* autocorrect the layout-0 rendering: the autoreplace entry is returned.
C11_Witness ==
  /\ KeyDown(KEY_COMMA)
  /\ ru_word(<< KEY_U, KEY_F >>) \in DOMAIN analyzer.autoreplace
  /\ en_word(<< KEY_U, KEY_F >>) \in DOMAIN analyzer.autocorrect
  /\ res = AnalysisResult("REPLACE_TEXT", 0, 10, Some(<< KEY_U, KEY_F >>),
                          Some(Text_Uf))

\* The key completes the switch chord in the words of the claim: the chord is
\* not empty, the key is not a modifier and is the chord's last element, and
\* every earlier element is in the held-modifier set.
CompletesChord(a, code) ==
  /\ a.switch_hotkey # <<>>
  /\ code \notin MODIFIERS
  /\ code = a.switch_hotkey[Len(a.switch_hotkey)]
  /\ \A i \in 1..Len(a.switch_hotkey) :
       i < Len(a.switch_hotkey) => a.switch_hotkey[i] \in a.active_modifiers

\* C12: with the Analyzer not paused, a key-down that completes a non-empty
\* switch chord returns LAYOUT_CHANGED and clears the buffer whatever the key
\* (hotkey, backspace or word boundary), and the orchestrator flips the
\* shadow layout and emits nothing; with an empty chord LAYOUT_CHANGED is
\* never returned.
C12_ManualSwitch ==
  [][ /\ ( /\ evt'.kind = "key"
           /\ evt'.value = 1
           /\ ~analyzer.paused
           /\ CompletesChord(analyzer, evt'.code) )
         => ( /\ res' = Result("LAYOUT_CHANGED")
              /\ analyzer'.buffer = <<>>
              /\ current_layout_index' = 1 - current_layout_index
              /\ emitted' = <<>>
              /\ sel_tasks' = sel_tasks )
      /\ ( evt'.kind = "key" /\ analyzer.switch_hotkey = <<>> )
         => res'.action # "LAYOUT_CHANGED" ]_vars

\* SPACE pressed with LEFT_META held: LAYOUT_CHANGED, the shadow layout
\* flipped to 1, nothing emitted.
C12_Witness ==
  /\ KeyDown(KEY_SPACE)
  /\ KEY_LEFTMETA \in analyzer.active_modifiers
  /\ analyzer.switch_hotkey = << KEY_LEFTMETA, KEY_SPACE >>
  /\ res.action = "LAYOUT_CHANGED"
  /\ current_layout_index = 1
  /\ emitted = <<>>

\* A selection round-trip that still has a key combo to emit: Ctrl+C before
\* its first step, Ctrl+V once the clipboard is written.
EmissionPending(t) == t.pc \in { "start", "sleep_paste" }

\* C13: when the Analyzer processes a key event, every emission triggered by
\* an earlier event is complete: no selection round-trip started by an
\* earlier event still has its Ctrl+C or Ctrl+V to emit.
C13_EmissionsBeforeNextEvent ==
  [][ evt'.kind = "key"
      => \A i \in DOMAIN sel_tasks : ~EmissionPending(sel_tasks[i]) ]_vars

\* The uinput writes of a combo of one modifier and a key.
ComboWrites(modifier, key) ==
  << << modifier, 1 >>, << key, 1 >>, << key, 0 >>, << modifier, 0 >> >>

\* The steps of a selection round-trip in the order of the claim.
RoundTripOrder ==
  << "send_combo_c", "sleep", "get_text", "process", "set_text", "sleep",
     "send_combo_v" >>
Done(n) == SubSeq(RoundTripOrder, 1, n)

\* C14: a selection round-trip goes through Ctrl+C, wait, clipboard read,
\* transform, clipboard write, wait, Ctrl+V in this order; it goes on to the
\* clipboard write only with a non-empty text read and a transformed text
\* that differs from it, and otherwise it ends with the clipboard not written
\* and nothing emitted; Ctrl+V is emitted by no other step than the last one
\* of a round-trip that wrote the clipboard.
C14_RoundTripOrder ==
  [][ /\ evt'.kind = "selection" =>
           \E i \in DOMAIN sel_tasks :
             \/ /\ sel_tasks[i].log = <<>>
                /\ sel_tasks' = [ sel_tasks EXCEPT ![i].log = Done(2),
                                                   ![i].pc = "sleep_copy" ]
                /\ ~wfail' => emitted' = ComboWrites(KEY_LEFTCTRL, KEY_C)
                /\ clipboard' = clipboard
             \/ /\ sel_tasks[i].log = Done(2)
                /\ sel_tasks' = RemoveAt(sel_tasks, i)
                /\ emitted' = <<>>
                /\ clipboard' = clipboard
             \/ /\ sel_tasks[i].log = Done(2)
                /\ Len(sel_tasks') = Len(sel_tasks)
                /\ sel_tasks'[i].log = Done(6)
                /\ Truthy(sel_tasks'[i].text)
                /\ sel_tasks'[i].new_text # sel_tasks'[i].text
                /\ clipboard' \in { sel_tasks'[i].new_text, clipboard }
                /\ emitted' = <<>>
             \/ /\ sel_tasks[i].log = Done(6)
                /\ sel_tasks' = RemoveAt(sel_tasks, i)
                /\ ~wfail' => emitted' = ComboWrites(KEY_LEFTCTRL, KEY_V)
                /\ clipboard' = clipboard
      /\ (\E k \in DOMAIN emitted' : emitted'[k][1] = KEY_V)
           => /\ evt'.kind = "selection"
              /\ \E i \in DOMAIN sel_tasks : sel_tasks[i].log = Done(6)
      /\ evt'.kind # "selection" => clipboard' = clipboard ]_vars

\* A round-trip has just pasted: the layout swap of the text read was stored
\* in the clipboard and Ctrl+V was emitted.
C14_Witness ==
  /\ evt.kind = "selection"
  /\ emitted = ComboWrites(KEY_LEFTCTRL, KEY_V)
  /\ clipboard = Some(<< ";", "CY_G" >>)
  /\ sel_tasks = <<>>

\* The action the claim's priority list gives for the modifiers held.
PausePriority(ctrl, shift, alt) ==
  IF ctrl /\ shift THEN "TRANSLITERATE"
  ELSE IF ctrl THEN "INVERT_CASE"
  ELSE IF alt THEN "NUM_TO_WORDS"
  ELSE IF shift THEN "INVERT_CASE"
  ELSE "CORRECT_WRONG_LAYOUT"

\* The result the claim expects of a PAUSE key-down for an action.
PauseResult(a, action) ==
  IF a.buffer # <<>> THEN AnalysisResult(action, 0, 0, Some(a.buffer), None)
  ELSE Result(action)

\* A step that takes the PAUSE key-down to the hotkey rule.
PauseStep ==
  /\ evt'.kind = "key"
  /\ evt'.code = KEY_PAUSE
  /\ evt'.value = 1
  /\ ~analyzer.paused
  /\ ~CompletesChord(analyzer, KEY_PAUSE)

\* C15 as stated: on a PAUSE key-down the action follows the priority list
\* with a modifier counting as held when its left or its right key is in the
\* held-modifier set; the payload is a copy of the buffer exactly when the
\* buffer is non-empty, and the Analyzer's buffer is unchanged.
C15_PausePriorityEitherSide ==
  [][ PauseStep =>
        /\ res' = PauseResult(analyzer,
             PausePriority(
               analyzer.active_modifiers \cap {KEY_LEFTCTRL, KEY_RIGHTCTRL} # {},
               analyzer.active_modifiers \cap {KEY_LEFTSHIFT, KEY_RIGHTSHIFT} # {},
               analyzer.active_modifiers \cap {KEY_LEFTALT, KEY_RIGHTALT} # {}))
        /\ analyzer'.buffer = analyzer.buffer ]_vars

\* C15, amended: on a PAUSE key-down the action follows the priority list
\* with a modifier counting as held only when its left key is in the
\* held-modifier set (right-hand keys are ignored); the payload is a copy of
\* the buffer exactly when the buffer is non-empty, and the Analyzer is
\* left unchanged.
C15_PausePriorityLeft ==
  [][ PauseStep =>
        /\ res' = PauseResult(analyzer,
             PausePriority(KEY_LEFTCTRL \in analyzer.active_modifiers,
                           KEY_LEFTSHIFT \in analyzer.active_modifiers,
                           KEY_LEFTALT \in analyzer.active_modifiers))
        /\ analyzer' = analyzer ]_vars

\* PAUSE pressed after a letter with only the right Ctrl held: the action is
\* CORRECT_WRONG_LAYOUT with the letter as payload, the buffer is kept.
C15_Witness ==
  /\ KeyDown(KEY_PAUSE)
  /\ analyzer.active_modifiers = { KEY_RIGHTCTRL }
  /\ analyzer.buffer = << KEY_F >>
  /\ res = AnalysisResult("CORRECT_WRONG_LAYOUT", 0, 0, Some(<< KEY_F >>), None)

\* C16: a PAUSE key-down that yields TRANSLITERATE, INVERT_CASE or
\* NUM_TO_WORDS with a non-empty buffer changes nothing: no emission, no
\* selection round-trip started, buffer and shadow layout unchanged.
C16_AdvancedOnWordNoEffect ==
  [][ ( /\ evt'.kind = "key"
        /\ evt'.code = KEY_PAUSE
        /\ analyzer.buffer # <<>>
        /\ res'.action \in { "TRANSLITERATE", "INVERT_CASE", "NUM_TO_WORDS" } )
      => /\ emitted' = <<>>
         /\ sel_tasks' = sel_tasks
         /\ clipboard' = clipboard
         /\ analyzer'.buffer = analyzer.buffer
         /\ current_layout_index' = current_layout_index ]_vars

\* PAUSE pressed with left Ctrl and left Shift held after a letter:
\* TRANSLITERATE carries the letter, nothing happened.
C16_Witness ==
  /\ KeyDown(KEY_PAUSE)
  /\ res = AnalysisResult("TRANSLITERATE", 0, 0, Some(<< KEY_F >>), None)
  /\ analyzer.buffer = << KEY_F >>
  /\ emitted = <<>>
  /\ sel_tasks = <<>>

\* C17: once set_paused(true) has been called the buffer is empty, and as
\* long as the Analyzer stays paused every process_key, whatever the scancode
\* and value, returns NONE and leaves the buffer empty.
C17_PausedInert ==
  [][ /\ analyzer'.paused => analyzer'.buffer = <<>>
      /\ ( evt'.kind = "key" /\ analyzer.paused )
         => /\ res' = Result("NONE")
            /\ analyzer'.buffer = <<>>
            /\ analyzer'.paused ]_vars

\* A letter typed while the Analyzer is paused: NONE, the buffer stays empty.
C17_Witness ==
  /\ KeyDown(KEY_F)
  /\ analyzer.paused
  /\ analyzer.buffer = <<>>
  /\ res = Result("NONE")

\* C18 as stated: after every poll that obtained a window title the Analyzer
\* is paused exactly when the title contains some string listed in
\* exceptions.window_titles.
C18_PollSetsPauseAnyEntry ==
  [][ ( evt'.kind = "poll" /\ window' # None )
      => ( analyzer'.paused <=>
             \E i \in DOMAIN config.exceptions.window_titles :
               Contains(window'[1], config.exceptions.window_titles[i]) ) ]_vars

\* C18, amended: after every poll that obtained a window title the Analyzer
\* is paused exactly when the title contains some non-empty string listed in
\* exceptions.window_titles, so a paused Analyzer is resumed by the first
\* such poll whose title contains none; a poll that obtained no window
\* information leaves the Analyzer as it was.
C18_PollSetsPause ==
  [][ evt'.kind = "poll"
      => IF window' = None THEN analyzer' = analyzer
         ELSE analyzer'.paused <=>
                \E i \in DOMAIN config.exceptions.window_titles :
                  /\ config.exceptions.window_titles[i] # <<>>
                  /\ Contains(window'[1], config.exceptions.window_titles[i]) ]_vars

\* A poll saw the title "Doom II" with "Doom" listed: the Analyzer is paused.
C18_Witness ==
  /\ evt.kind = "poll"
  /\ window = Some(<< "Doom", "II" >>)
  /\ config.exceptions.window_titles = << <<>>, << "Doom" >> >>
  /\ analyzer.paused

\* s is a beginning of t.
IsPrefix(s, t) == Len(s) <= Len(t) /\ s = SubSeq(t, 1, Len(s))

\* C19: when a uinput write fails while a layout rewrite is realized, the
\* rest of the rewrite is abandoned: what reached the virtual keyboard is a
\* beginning of the rewrite's writes that stops short of the end, the shadow
\* layout is flipped only if the whole chord was written, and the buffer is
\* empty afterwards.
C19_WriteFailureAbandons ==
  [][ ( evt'.kind = "key" /\ RealizedRewrite /\ wfail' )
      => LET payload == res'.payload[1]
             chord   == config.layout_switch_hotkey
             all     == RewriteWrites(payload, chord)
         IN  /\ IsPrefix(emitted', all)
             /\ Len(emitted') < Len(all)
             /\ Len(emitted') < 2 * Len(payload) + 2 * Len(chord)
                  => current_layout_index' = current_layout_index
             /\ analyzer'.buffer = <<>> ]_vars

\* C20: when the handling of a key event raises, the event has the effect of
\* NONE: nothing is emitted, the shadow layout is as before, the reader of
\* the device stays registered and alive, and the word buffer is cleared.
C20_ExceptionActsAsNone ==
  [][ evt'.kind = "key_error"
      => /\ emitted' = <<>>
         /\ current_layout_index' = current_layout_index
         /\ monitors' = monitors /\ readers' = readers
         /\ analyzer'.buffer = <<>> ]_vars

\* ------------------------------------------------------------------ C21
\* C21: a SIGHUP whose configuration load fails leaves the service state as
\* it was: the snapshot in use, the Analyzer (buffer, held modifiers, paused
\* flag), the shadow layout index, the virtual keyboard and the selection
\* tasks are all unchanged, and the tap with its readers is untouched, so the
\* service keeps handling events afterwards.
C21_FailedReloadKeepsState ==
  [][evt'.kind = "reload_error" =>
       /\ config' = config
       /\ analyzer' = analyzer
       /\ current_layout_index' = current_layout_index
       /\ injector_ui' = injector_ui
       /\ sel_tasks' = sel_tasks
       /\ UNCHANGED tvars]_vars

\* A failed reload met an Analyzer holding a word and a modifier, with the
\* shadow index at 1.
C21_Witness ==
  /\ evt.kind = "reload_error"
  /\ analyzer.buffer # <<>>
  /\ analyzer.active_modifiers # {}
  /\ current_layout_index = 1

\* A failed reload met a paused Analyzer.
C21_WitnessPaused == evt.kind = "reload_error" /\ analyzer.paused

\* ------------------------------------------------------------------ C22
\* C22: a read error on one device ends only the reader that failed and
\* removes only the registry entry of its path: every other reader is as it
\* was (not cancelled, still registered), the scanner and should_run are left
\* alone; and a sweep of the running scanner registers a reader for every
\* keyboard it opens that has none, so a failed device that is present is
\* monitored again. Readers are cancelled, and the scanner told to end, by
\* stop() only: should_run falls only in a step that empties the registry.
C22_ReadErrorIsLocal ==
  [][
     /\ \A t \in DOMAIN readers :
          ReadErrorOf(t) =>
            /\ DOMAIN readers' = DOMAIN readers \ {t}
            /\ \A u \in DOMAIN readers' : readers'[u] = readers[u]
            /\ \A p \in DOMAIN monitors \ {readers[t].path} :
                  p \in DOMAIN monitors' /\ monitors'[p] = monitors[p]
            /\ readers[t].path \notin DOMAIN monitors'
            /\ should_run' = should_run
            /\ scanner' = scanner
     /\ TapScan =>
          \A p \in present \ DOMAIN monitors :
            (p \in seen' /\ is_keyboard(Devices[p])
               /\ Devices[p].name # VirtualName) =>
              (p \in DOMAIN monitors' /\ ~readers'[monitors'[p]].cancelled)
     /\ (should_run /\ ~should_run') => monitors' = NoMonitors
    ]_vars

\* A reader failed while the reader of the other keyboard went on: the other
\* keyboard is still registered and read, the scanner runs.
C22_Witness ==
  /\ evt.kind = "read_error"
  /\ "event0" \in present
  /\ "event0" \notin DOMAIN monitors
  /\ "event2" \in DOMAIN monitors
  /\ ~readers[monitors["event2"]].cancelled
  /\ should_run
  /\ scanner = "running"

\* After a read error, the failed keyboard is registered again and an event
\* of the other keyboard has not yet replaced the record of the failure.
C22_WitnessAgain ==
  /\ evt.kind = "read_error"
  /\ DOMAIN monitors = {"event0", "event2"}
  /\ \A p \in DOMAIN monitors : ~readers[monitors[p]].cancelled

\* ------------------------------------------------------------------ C23
\* The Input Tap is stopped: should_run is false, the registry is empty and
\* every reader still alive has been cancelled.
TapStopped ==
  /\ ~should_run
  /\ monitors = NoMonitors
  /\ \A t \in DOMAIN readers : readers[t].cancelled

\* C23: once stop() has run (SIGINT or SIGTERM) the main loop eventually
\* exits and run() ends with the Input Tap stopped and the virtual keyboard
\* closed; the keyboard is closed only after the tap has been stopped, no
\* reader is started once the tap is stopped, and run() never ends with the
\* keyboard open, whichever way it left the loop (event cleared,
\* cancellation, exception).
C23_Shutdown ==
  /\ [](run_pc \in {"closing", "done"} => TapStopped)
  /\ [](~injector_ui => TapStopped)
  /\ [](run_pc = "done" => ~injector_ui)
  /\ [][(run_pc \in {"closing", "done"}) =>
           ((DOMAIN readers') \subseteq (DOMAIN readers))]_vars
  /\ (run_pc = "sleep" /\ ~running) ~>
       (run_pc = "done" /\ ~injector_ui /\ TapStopped)

\* run() has ended after a stop(): keyboard closed, readers and scanner gone,
\* after events had been handled.
C23_Witness ==
  /\ run_pc = "done"
  /\ ~running
  /\ ~injector_ui
  /\ readers = NoReaders
  /\ scanner = "done"
  /\ evt.kind = "key"

\* run() has ended without any stop(): the loop was left by cancellation or
\* an exception.
C23_WitnessAbort == run_pc = "done" /\ running /\ ~injector_ui

\* ------------------------------------------------------------------ C24
\* The step wrote the whole switch chord on the virtual keyboard: the chord's
\* presses and releases are a contiguous part of what was emitted.
ChordEmitted ==
  LET chord == ChordWrites(config.layout_switch_hotkey)
  IN  \E i \in 0..Len(emitted') :
        /\ i + Len(chord) <= Len(emitted')
        /\ SubSeq(emitted', i + 1, i + Len(chord)) = chord

\* C24: the shadow layout index changes only in a step that returned
\* LAYOUT_CHANGED (a switch chord typed by the user) or in a step that
\* realized a rewrite and wrote its switch chord on the virtual keyboard;
\* every other step (NONE, REPLACE_TEXT, a suppressed SWITCH_LAYOUT, a hotkey
\* without a word, a window poll, a reload) leaves it unchanged.
C24_ShadowFrame ==
  [][ current_layout_index' # current_layout_index =>
        /\ evt'.kind = "key"
        /\ \/ res'.action = "LAYOUT_CHANGED"
           \/ RealizedRewrite /\ ChordEmitted ]_vars

\* The same frame without the condition on the chord: the shadow layout index
\* changes only in a LAYOUT_CHANGED step or in a step that realized a rewrite.
C24_ShadowFrameOfDispatch ==
  [][ current_layout_index' # current_layout_index =>
        /\ evt'.kind = "key"
        /\ \/ res'.action = "LAYOUT_CHANGED"
           \/ RealizedRewrite ]_vars

\* ------------------------------------------------------------------ C25
\* C25: switch_layout is an involution on texts made of characters of the
\* two alphabets: applying it to the result of an application gives back the
\* text the first application was given.
C25_SwitchInvolution ==
  [][ ( /\ evt'.kind = "switch_layout"
        /\ \A i \in DOMAIN clipboard[1] : clipboard[1][i] \in LayoutChars )
      => switch_layout(clipboard'[1]) = clipboard[1] ]_vars

\* The characters on which two applications of switch_layout give back the
\* character.
InvolutiveChars ==
  { ch \in LayoutChars : switch_layout(switch_layout(<<ch>>)) = <<ch>> }

\* What holds on texts of the two alphabets: switch_layout maps them to texts
\* of the two alphabets, and two applications give back the text exactly when
\* every character is in InvolutiveChars (all but the lower case Russian
\* letters of the keys whose English character has no upper case, and both
\* cases of the Russian letter of KEY_DOT).
C25_SwitchInvolutionWhere ==
  [][ ( /\ evt'.kind = "switch_layout"
        /\ \A i \in DOMAIN clipboard[1] : clipboard[1][i] \in LayoutChars )
      => /\ \A i \in DOMAIN clipboard'[1] : clipboard'[1][i] \in LayoutChars
         /\ (\A i \in DOMAIN clipboard[1] : clipboard[1][i] \in InvolutiveChars)
              <=> switch_layout(clipboard'[1]) = clipboard[1] ]_vars

\* ------------------------------------------------------------------ C26
\* C26: in every reachable state the shadow layout index is 0 or 1.
C26_ShadowIndexRange == current_layout_index \in {0, 1}

\* The index is back at 0 after a user chord flipped it from 1, where a
\* rewrite or an earlier chord had put it.
C26_Witness ==
  /\ evt.kind = "key"
  /\ res.action = "LAYOUT_CHANGED"
  /\ current_layout_index = 0

\* The index is at 1 after a realized rewrite.
C26_WitnessRewrite ==
  /\ evt.kind = "key"
  /\ res.action = "CORRECT_WRONG_LAYOUT"
  /\ emitted # <<>>
  /\ current_layout_index = 1

\* ------------------------------------------------------------------ C27
\* The writes the claim asks for one character: nothing when the reverse map
\* has no scancode for the lower-cased character; else the press and release
\* of that scancode, between a press and a release of left shift when the
\* character is upper case.
CharWrites(ch) ==
  LET l == Lower(ch) IN
  IF l \notin DOMAIN CHAR_TO_KEYCODE THEN <<>>
  ELSE LET pair == PairWrites(<< CHAR_TO_KEYCODE[l] >>)
       IN  IF ch \in UpperLetters
           THEN << <<KEY_LEFTSHIFT, 1>> >> \o pair \o << <<KEY_LEFTSHIFT, 0>> >>
           ELSE pair

\* The writes of the first n characters of text, in order.
RECURSIVE TextWrites(_, _)
TextWrites(text, n) ==
  IF n = 0 THEN <<>> ELSE TextWrites(text, n - 1) \o CharWrites(text[n])

\* C27: type_string(text) writes, for each character in order, the press and
\* release of the scancode the reverse map gives for the lower-cased
\* character, with left shift pressed before and released after exactly when
\* the character is upper case; a character without a scancode writes
\* nothing and the characters after it are still typed.
C27_TypeString ==
  evt.kind = "type_string" =>
    emitted = TextWrites(clipboard[1], Len(clipboard[1]))

\* 'U', an unknown character and a lower case Russian letter were typed:
\* shift, U, shift released, nothing for '7', then the key of the letter.
C27_Witness ==
  /\ evt.kind = "type_string"
  /\ clipboard = Some(<<"U", "7", "cy_b">>)
  /\ emitted = << <<KEY_LEFTSHIFT, 1>>, <<KEY_U, 1>>, <<KEY_U, 0>>,
                  <<KEY_LEFTSHIFT, 0>>, <<KEY_COMMA, 1>>, <<KEY_COMMA, 0>> >>

\* ------------------------------------------------------------------ C30
\* C30: for every scancode k of the Layout Table the reverse map sends the
\* primary and the secondary character of k to k; stated on the characters of
\* the text at hand, which range over the whole table.
C30_ReverseMapConsistent ==
  \A i \in DOMAIN clipboard[1] : \A k \in DOMAIN KEY_MAP :
    clipboard[1][i] \in { KEY_MAP[k][1], KEY_MAP[k][2] } =>
      CHAR_TO_KEYCODE[clipboard[1][i]] = k

\* What holds: the reverse map sends both characters of every key but KEY_DOT
\* to the key; the primary character of KEY_DOT, '.', is also the secondary
\* character of KEY_SLASH and is sent there.
C30_ReverseMapButDot ==
  /\ \A k \in DOMAIN KEY_MAP \ {KEY_DOT} :
       /\ CHAR_TO_KEYCODE[KEY_MAP[k][1]] = k
       /\ CHAR_TO_KEYCODE[KEY_MAP[k][2]] = k
  /\ CHAR_TO_KEYCODE[KEY_MAP[KEY_DOT][2]] = KEY_DOT
  /\ CHAR_TO_KEYCODE[KEY_MAP[KEY_DOT][1]] = KEY_SLASH

\* ------------------------------------------------------------------ C28
\* The step is an event of a modifier key handled by an Analyzer that is not
\* paused.
ModifierStep ==
  /\ evt'.kind = "key"
  /\ evt'.code \in MODIFIERS
  /\ ~analyzer.paused

\* A modifier event returns NONE and changes nothing of the Analyzer but the
\* held set: a key-down adds the key, a key-up removes it, a key-repeat
\* leaves the set alone.
ModifierTracked ==
  /\ res' = Result("NONE")
  /\ analyzer' = [analyzer EXCEPT !.active_modifiers = analyzer'.active_modifiers]
  /\ evt'.value = 1 =>
       analyzer'.active_modifiers = analyzer.active_modifiers \cup {evt'.code}
  /\ evt'.value = 0 =>
       analyzer'.active_modifiers = analyzer.active_modifiers \ {evt'.code}
  /\ evt'.value = 2 =>
       analyzer'.active_modifiers = analyzer.active_modifiers

\* C28 as stated: modifier events are tracked as above, and the key-up that
\* follows a key-down leaves the buffer and the held set as they were before
\* the key-down.
C28_ModifierRoundTrip ==
  [][ ModifierStep =>
        /\ ModifierTracked
        /\ evt'.value = 1 =>
             process_key(analyzer', evt'.code, 0).analyzer = analyzer ]_vars

\* C28 as the code behaves: modifier events are tracked as above; the key-up
\* that follows a key-down leaves the buffer as it was and the held set
\* without the key, which is the set before the key-down exactly when the
\* key was not in it.
C28_ModifierTracking ==
  [][ ModifierStep =>
        /\ ModifierTracked
        /\ evt'.value = 1 =>
             LET up == process_key(analyzer', evt'.code, 0).analyzer
             IN  /\ up.buffer = analyzer.buffer
                 /\ up.active_modifiers = analyzer.active_modifiers \ {evt'.code}
                 /\ up = analyzer <=> evt'.code \notin analyzer.active_modifiers
    ]_vars

\* Right Meta was released with a word in the buffer and left Ctrl held.
C28_Witness ==
  /\ evt = [kind |-> "key", code |-> KEY_RIGHTMETA, value |-> 0]
  /\ analyzer.buffer = << KEY_F, KEY_U >>
  /\ analyzer.active_modifiers = {KEY_LEFTCTRL}

\* ------------------------------------------------------------------ C29
\* C29: with the Analyzer not paused and the key not completing the switch
\* chord, a key-down or key-repeat of backspace removes exactly the last
\* scancode of a non-empty buffer, leaves an empty buffer empty, returns NONE
\* and changes nothing else of the Analyzer.
C29_Backspace ==
  [][ ( /\ evt'.kind = "key"
        /\ evt'.code = KEY_BACKSPACE
        /\ evt'.value \in {1, 2}
        /\ ~analyzer.paused
        /\ ~CompletesChord(analyzer, KEY_BACKSPACE) )
      => /\ res' = Result("NONE")
         /\ analyzer' = [analyzer EXCEPT !.buffer = analyzer'.buffer]
         /\ analyzer.buffer = <<>> => analyzer'.buffer = <<>>
         /\ analyzer.buffer # <<>> =>
              analyzer.buffer = Append(analyzer'.buffer,
                                       analyzer.buffer[Len(analyzer.buffer)])
    ]_vars

\* A key-repeat of backspace took the last key off a word of two keys and
\* left the first.
C29_Witness ==
  /\ evt = [kind |-> "key", code |-> KEY_BACKSPACE, value |-> 2]
  /\ analyzer.buffer = << KEY_F >>

\* A backspace met an empty buffer.
C29_WitnessEmpty ==
  /\ evt = [kind |-> "key", code |-> KEY_BACKSPACE, value |-> 1]
  /\ analyzer.buffer = <<>>

\* ------------------------------------------------------------------ C31
\* The writes the claim describes for a chord of one key or more: each
\* modifier (all but the last key) pressed in order, the last key pressed and
\* released, the modifiers released in reverse order.
ComboOfChord(ch) ==
  LET n == Len(ch) - 1 IN
  [ i \in 1..n |-> << ch[i], 1 >> ] \o
  << << ch[n + 1], 1 >>, << ch[n + 1], 0 >> >> \o
  [ i \in 1..n |-> << ch[n + 1 - i], 0 >> ]

\* C31: for every chord of length >= 1, when no write fails,
\* Injector.switch_layout writes the sequence the claim describes, and it is
\* the sequence send_combo(chord[:-1], chord[-1]) writes.
C31_SwitchIsCombo ==
  LET ch == config.layout_switch_hotkey IN
  ( evt.kind \in {"switch_keys", "send_combo"} /\ ch # <<>> /\ ~wfail ) =>
    /\ emitted = ComboOfChord(ch)
    /\ AllWrites(switch_layout_keys(ch))
         = AllWrites(send_combo(SubSeq(ch, 1, Len(ch) - 1), ch[Len(ch)]))

\* The chord Alt+Shift+Space was emitted by switch_layout: three presses, the
\* releases in reverse order.
C31_Witness ==
  /\ evt.kind = "switch_keys"
  /\ ~wfail
  /\ config.layout_switch_hotkey = << KEY_LEFTALT, KEY_LEFTSHIFT, KEY_SPACE >>
  /\ emitted = << <<KEY_LEFTALT, 1>>, <<KEY_LEFTSHIFT, 1>>, <<KEY_SPACE, 1>>,
                  <<KEY_SPACE, 0>>, <<KEY_LEFTSHIFT, 0>>, <<KEY_LEFTALT, 0>> >>

\* When the press of the last key fails the two differ: switch_layout still
\* writes its release, send_combo does not.
C31_WitnessFailure ==
  /\ evt.kind = "switch_keys"
  /\ wfail
  /\ config.layout_switch_hotkey = << KEY_LEFTMETA, KEY_SPACE >>
  /\ emitted = << <<KEY_LEFTMETA, 1>>, <<KEY_SPACE, 0>>, <<KEY_LEFTMETA, 0>> >>

\* ------------------------------------------------------------------ C32
\* C32: in every reachable state the held-modifier set of the Analyzer in use
\* is the set of modifier keys physically held, across pauses, resumes and
\* reloads.
C32_ModifiersMatchPhysical == analyzer.active_modifiers = phys_mods

\* What holds: a key event handled by an Analyzer that is not paused and whose
\* set agrees with the keys held leaves them in agreement; polls leave the
\* set alone.
C32_TrackedWhileRunning ==
  [][ /\ ( /\ evt'.kind = "key"
           /\ ~analyzer.paused
           /\ analyzer.active_modifiers = phys_mods )
         => analyzer'.active_modifiers = phys_mods'
      /\ evt'.kind = "poll" =>
           analyzer'.active_modifiers = analyzer.active_modifiers ]_vars

\* A modifier released while the Analyzer was paused is still in the set
\* after the resume.
C32_StaleAfterPause ==
  /\ evt.kind = "poll"
  /\ ~analyzer.paused
  /\ phys_mods = {}
  /\ analyzer.active_modifiers = {KEY_LEFTMETA}

\* A modifier held across a reload is missing from the new Analyzer's set.
C32_LostByReload ==
  /\ evt.kind = "reload"
  /\ phys_mods = {KEY_LEFTMETA}
  /\ analyzer.active_modifiers = {}

\* ------------------------------------------------------------------ C33
\* C33: with the Analyzer not paused, every key-down and every key-repeat of
\* the chord's last key while the chord's modifiers are held returns
\* LAYOUT_CHANGED and flips the shadow layout, and leaves the Analyzer ready
\* to do so again on the next repeat: a chord held for k repeats flips the
\* shadow layout k + 1 times.
C33_RepeatFlipsAgain ==
  [][ ( /\ evt'.kind = "key"
        /\ evt'.value \in {1, 2}
        /\ ~analyzer.paused
        /\ CompletesChord(analyzer, evt'.code) )
      => /\ res' = Result("LAYOUT_CHANGED")
         /\ current_layout_index' = 1 - current_layout_index
         /\ emitted' = <<>>
         /\ CompletesChord(analyzer', evt'.code)
         /\ process_key(analyzer', evt'.code, 2).res = Result("LAYOUT_CHANGED")
    ]_vars

\* A key-repeat of SPACE with Meta held returned LAYOUT_CHANGED and put the
\* shadow layout back to 0.
C33_Witness ==
  /\ evt = [kind |-> "key", code |-> KEY_SPACE, value |-> 2]
  /\ res.action = "LAYOUT_CHANGED"
  /\ phys_mods = {KEY_LEFTMETA}
  /\ current_layout_index = 0

\* ------------------------------------------------------------------ C34
\* C34: when the configured chord ends in a modifier scancode, no key event
\* makes the Analyzer return LAYOUT_CHANGED, and the shadow layout changes
\* only where a rewrite (not a user-issued switch) flips it.
C34_ModifierChordNeverFires ==
  [][ ( /\ evt'.kind = "key"
        /\ config.layout_switch_hotkey # <<>>
        /\ config.layout_switch_hotkey[Len(config.layout_switch_hotkey)]
             \in MODIFIERS )
      => /\ res'.action # "LAYOUT_CHANGED"
         /\ ( current_layout_index' # current_layout_index
                => res'.action \in { "SWITCH_LAYOUT", "CORRECT_WRONG_LAYOUT" } )
    ]_vars

\* With the chord [LEFT_ALT, LEFT_SHIFT] configured, Alt is held and Shift has
\* just gone down: the whole chord is held and the result is NONE.
C34_Witness ==
  /\ config.layout_switch_hotkey = << KEY_LEFTALT, KEY_LEFTSHIFT >>
  /\ evt = [kind |-> "key", code |-> KEY_LEFTSHIFT, value |-> 1]
  /\ analyzer.active_modifiers = { KEY_LEFTALT, KEY_LEFTSHIFT }
  /\ res = Result("NONE")
  /\ current_layout_index = 0

\* ------------------------------------------------------------------ C35
\* The reader tasks that can still deliver events read from path p.
LiveReaders(p) ==
  { t \in DOMAIN readers : readers[t].path = p /\ ~readers[t].cancelled }

StaleReader ==
  \E t \in DOMAIN readers :
    readers[t].cancelled /\ readers[t].path \in DOMAIN monitors

C35_EntryOfNewerReaderRemoved ==
  /\ should_run
  /\ \E t \in LiveReaders("event0") : "event0" \notin DOMAIN monitors

\* Two live readers of the same keyboard: each of its key events is delivered
\* twice.
C35_TwoLiveReaders == Cardinality(LiveReaders("event0")) = 2

\* ------------------------------------------------------------------ C36
\* C36: an Analyzer paused by a poll stays paused, and nothing is written to
\* the virtual keyboard, on every step up to the next poll, a reload that
\* keeps the exclusions included.
C36_PausedUntilNextPoll ==
  [][ ( /\ analyzer.paused
        /\ evt'.kind # "poll"
        /\ ( evt'.kind = "reload" => config'.exceptions = config.exceptions ) )
      => ( analyzer'.paused /\ emitted' = <<>> )
    ]_vars

\* What holds: key events and failed reloads leave a paused Analyzer paused
\* and write nothing.
C36_PausedWithoutReload ==
  [][ ( analyzer.paused /\ evt'.kind \in { "key", "reload_error" } )
      => ( analyzer'.paused /\ emitted' = <<>> /\ res' = Result("NONE") )
    ]_vars

\* The state the reload leaves while the exclusion is still configured: a
\* fresh Analyzer that is not paused.
C36_ResumedByReload ==
  /\ evt.kind = "reload"
  /\ ~analyzer.paused
  /\ is_blacklisted(config, << "Doom", "II" >>)

\* ------------------------------------------------------------------ C37
\* C37: while the config snapshot has auto_switch_enabled = FALSE, no key
\* event realizes an automatic SWITCH_LAYOUT rewrite.
C37_NoAutoSwitchWhenDisabled ==
  [][ ( evt'.kind = "key" /\ ~config.auto_switch_enabled )
      => ~RealizedSwitch
    ]_vars

\* With auto_switch_enabled = FALSE a typed word was rewritten: backspaces,
\* the chord of the snapshot and the retyped scancodes were written.
C37_SwitchedWhenDisabled ==
  /\ ~config.auto_switch_enabled
  /\ evt.kind = "key"
  /\ res.action = "SWITCH_LAYOUT"
  /\ ~wfail
  /\ emitted = RewriteWrites(res.payload[1], config.layout_switch_hotkey)

\* With auto_switch_enabled = FALSE the PAUSE hotkey still rewrites the typed
\* word.
C37_ManualWhenDisabled ==
  /\ ~config.auto_switch_enabled
  /\ KeyDown(KEY_PAUSE)
  /\ res.action = "CORRECT_WRONG_LAYOUT"
  /\ Truthy(res.payload)
  /\ emitted # <<>>

====
